---- MODULE Spec2Model ----
(***************************************************************************)
(* grammr: the selective diff review of internal/ui/app.go.                *)
(*                                                                         *)
(* Texts are sequences of one-character strings.  A diff is a sequence of  *)
(* spans [Type, Text]; a DiffChange is [Type, Text, Applied, Skipped].     *)
(* SpecReplay drives parseDiffIntoChanges / buildReviewedTextFromDiffs as  *)
(* pure functions over every bounded pair of texts and every decision      *)
(* assignment; Spec drives the bubbletea Model through key presses and     *)
(* command results.                                                        *)
(***************************************************************************)
EXTENDS Integers, Sequences, FiniteSets, TLC

VARIABLES
    \* ---- Model (app.go, type Model) ----
    mode,           \* m.mode
    originalText,   \* m.originalText
    correctedText,  \* m.correctedText
    isLoading,      \* m.isLoading
    showDiff,       \* m.showDiff
    autoCopy,       \* m.config.AutoCopy
    status,         \* m.status (its kind, not its wording)
    diffChanges,    \* m.diffChanges
    currentChange,  \* m.currentChange, 0-based as in the source
    reviewedText,   \* m.reviewedText
    translator,     \* m.translator != nil
    translatedText, \* m.translatedText
    isTranslating,  \* m.isTranslating
    error,          \* m.error
    uiCache,        \* m.cache: whether there is one, and the entries Get finds
    lastMsg,        \* the message, other than a key, that the last Update handled, the
                    \* command Update returned for it, and what m.cache.Set returned
                    \* to the command that sent the message ("none": it made no call)
    \* ---- environment of the Model ----
    inFlight,       \* texts of the correction commands that have not yet returned
    inputs,         \* times the user has brought in text (paste, re-correct, edit)
    sinkCall,       \* argument of the clipboard.Copy call made by the last Update, or NoCall
    sessionCopies,  \* clipboard.Copy calls made by handleReviewMode since review was entered
    \* ---- the replay functions called directly (as the package tests do) ----
    fnOriginal,     \* argument original
    fnCorrected,    \* argument corrected
    fnChanges,      \* argument changes
    fnResult,       \* value returned by buildReviewedTextFromDiffs
    fnTrace,        \* what the replay wrote for each span group, in order
    fnPhase,        \* "built" after parseDiffIntoChanges, "cut" / "extended" once the
                    \* list was shortened / lengthened, "replayed..." after the replay
    fnCalls,        \* calls of buildReviewedTextFromDiffs made so far
    \* ---- one RateLimiter and the goroutines that call Wait on it ----
    rl,             \* the RateLimiter's fields (ratelimit.go, type RateLimiter); mu is
                    \* the goroutine that holds the mutex, 0 when it is unlocked
    rlArgs,         \* how the limiter was built: <<"New", arguments>> or <<"literal">>
    rlNow,          \* time.Now(), in nanoseconds since the limiter was built
    rlAdvances,     \* times the clock has moved
    rlPc,           \* where each goroutine stands in Wait
    rlWake,         \* when the timer of the select a goroutine sits in fires
    rlCtx,          \* each goroutine's context: "live", or when it was cancelled
    rlWaited,       \* whether a goroutine's Wait has had to wait
    rlErr,          \* what the Wait of a goroutine returned
    rlAcquired,     \* the Wait calls that took a token, in order: who, and when
    \* ---- one Cache, its directory and its callers ----
    cacheTTL,       \* c.ttl
    cacheFiles,     \* the cache directory: the content of <name>.json, or NoFile
    cacheNow,       \* time.Now()
    cacheAdvances,  \* times the clock has moved
    cacheOps,       \* calls of Set and Get made so far
    cacheOp,        \* the latest call: its name, its hash and what it returned
    cacheStored     \* per hash, the arguments of the latest Set that returned nil

modelVars == <<mode, originalText, correctedText, isLoading, showDiff, autoCopy, status,
               diffChanges, currentChange, reviewedText,
               inFlight, inputs, sinkCall, sessionCopies,
               translator, translatedText, isTranslating, error, uiCache, lastMsg>>
fnVars == <<fnOriginal, fnCorrected, fnChanges, fnResult, fnTrace, fnPhase, fnCalls>>
trVars == <<translator, translatedText, isTranslating, error, uiCache>>
rlVars == <<rl, rlArgs, rlNow, rlAdvances, rlPc, rlWake, rlCtx, rlWaited, rlErr, rlAcquired>>
cacheVars == <<cacheTTL, cacheFiles, cacheNow, cacheAdvances, cacheOps, cacheOp, cacheStored>>
vars == <<mode, originalText, correctedText, isLoading, showDiff, autoCopy, status,
          diffChanges, currentChange, reviewedText,
          inFlight, inputs, sinkCall, sessionCopies,
          translator, translatedText, isTranslating, error, uiCache, lastMsg,
          fnOriginal, fnCorrected, fnChanges, fnResult, fnTrace, fnPhase, fnCalls,
          rl, rlArgs, rlNow, rlAdvances, rlPc, rlWake, rlCtx, rlWaited, rlErr, rlAcquired,
          cacheTTL, cacheFiles, cacheNow, cacheAdvances, cacheOps, cacheOp, cacheStored>>

----------------------------------------------------------------------------
(* Bounds and alphabets *)

\* longest text given to the replay functions under SpecReplay
MaxLen == 3
\* commands that may be in flight at once under Spec
MaxInFlight == 2
\* times the user brings in a text under Spec: a paste, a re-correction, an edit
MaxInputs == 2

\* units appended to a change list under SpecReplay
MaxExtra == 1
\* calls of buildReviewedTextFromDiffs on one change list under SpecReplay
MaxCalls == 2

\* a letter, a blank, and the arrow of the " → " separator
Alphabet == {"a", " ", "→"}

TextsUpTo(n) == UNION {[1..k -> Alphabet] : k \in 0..n}

\* a text that holds the separator itself, ahead of two letters and one more
\* character: against "aa " its diff is a lone edit of " → ", an Equal span and a
\* paired delete+insert
LongText == <<" ", "→", " ", "a", "a", "→">>

Texts == TextsUpTo(MaxLen) \cup {LongText}

\* the texts pasted, typed or returned by the provider under Spec: between them
\* an identical pair, a substitution, a deletion, an insertion, a deletion
\* followed by an insertion, an empty text and one with trailing whitespace
SessionTexts ==
    {<<>>, <<"a">>, <<"→">>, <<"a", "→">>, <<"→", "a">>, <<"a", " ">>}

----------------------------------------------------------------------------
(* Strings *)

\* strings.Contains(s, sub)
Contains(s, sub) ==
    \E i \in 1..(Len(s) - Len(sub) + 1) : SubSeq(s, i, i + Len(sub) - 1) = sub

\* the separator written between the two halves of a paired change
Arrow == <<" ", "→", " ">>

RECURSIVE trimTrailingWhitespace(_)
\* strings.TrimRight(text, " \t\n\r")
trimTrailingWhitespace(text) ==
    IF text # <<>> /\ text[Len(text)] = " "
    THEN trimTrailingWhitespace(SubSeq(text, 1, Len(text) - 1))
    ELSE text

RECURSIVE Flatten(_)
Flatten(ss) == IF ss = <<>> THEN <<>> ELSE Head(ss) \o Flatten(Tail(ss))

----------------------------------------------------------------------------
(* The diff primitive (github.com/sergi/go-diff, not part of the           *)
(* repository): an ordered sequence of Equal/Delete/Insert spans that      *)
(* covers both texts, with every run of edits merged into at most one      *)
(* Delete followed by at most one Insert.                                  *)

DiffEqual == "Equal"
DiffDelete == "Delete"
DiffInsert == "Insert"

Span(t, x) == [Type |-> t, Text |-> x]

RECURSIVE LCSLen(_, _)
LCSLen(a, b) ==
    IF a = <<>> \/ b = <<>> THEN 0
    ELSE IF Head(a) = Head(b) THEN 1 + LCSLen(Tail(a), Tail(b))
    ELSE LET x == LCSLen(Tail(a), b)
             y == LCSLen(a, Tail(b))
         IN IF x >= y THEN x ELSE y

RECURSIVE CharDiff(_, _)
\* one span per character, along a longest common subsequence
CharDiff(a, b) ==
    IF a = <<>> THEN [k \in 1..Len(b) |-> Span(DiffInsert, <<b[k]>>)]
    ELSE IF b = <<>> THEN [k \in 1..Len(a) |-> Span(DiffDelete, <<a[k]>>)]
    ELSE IF Head(a) = Head(b)
         THEN <<Span(DiffEqual, <<Head(a)>>)>> \o CharDiff(Tail(a), Tail(b))
    ELSE IF LCSLen(Tail(a), b) >= LCSLen(a, Tail(b))
         THEN <<Span(DiffDelete, <<Head(a)>>)>> \o CharDiff(Tail(a), b)
         ELSE <<Span(DiffInsert, <<Head(b)>>)>> \o CharDiff(a, Tail(b))

RECURSIVE CleanupMerge(_, _, _, _)
\* merge: equal runs joined; each edit run becomes Delete(all) then Insert(all)
CleanupMerge(ds, eq, del, ins) ==
    LET edits == (IF del = <<>> THEN <<>> ELSE <<Span(DiffDelete, del)>>)
                 \o (IF ins = <<>> THEN <<>> ELSE <<Span(DiffInsert, ins)>>)
        equal == IF eq = <<>> THEN <<>> ELSE <<Span(DiffEqual, eq)>>
    IN IF ds = <<>> THEN equal \o edits
       ELSE LET d == Head(ds) IN
            IF d.Type = DiffEqual
            THEN IF del = <<>> /\ ins = <<>>
                 THEN CleanupMerge(Tail(ds), eq \o d.Text, <<>>, <<>>)
                 ELSE equal \o edits \o CleanupMerge(Tail(ds), d.Text, <<>>, <<>>)
            ELSE IF d.Type = DiffDelete
                 THEN CleanupMerge(Tail(ds), eq, del \o d.Text, ins)
                 ELSE CleanupMerge(Tail(ds), eq, del, ins \o d.Text)

\* dmp.DiffCleanupSemantic(dmp.DiffMain(original, corrected, false))
DiffMain(original, corrected) ==
    CleanupMerge(CharDiff(original, corrected), <<>>, <<>>, <<>>)

----------------------------------------------------------------------------
(* parseDiffIntoChanges *)

DiffChange_PreApplied(t, x) == [Type |-> t, Text |-> x, Applied |-> TRUE, Skipped |-> FALSE]

DiffChange(t, x) == [Type |-> t, Text |-> x, Applied |-> FALSE, Skipped |-> FALSE]

IsPairAt_Never(diffs, i) == FALSE

\* the test of both walks: a Delete at i immediately followed by an Insert
IsPairAt(diffs, i) ==
    /\ diffs[i].Type = DiffDelete
    /\ i + 1 <= Len(diffs)
    /\ diffs[i + 1].Type = DiffInsert

RECURSIVE ParseFrom(_, _)
\* the loop of parseDiffIntoChanges from span i on (1-based)
ParseFrom(diffs, i) ==
    IF i > Len(diffs) THEN <<>>
    ELSE LET diff == diffs[i] IN
         IF diff.Type = DiffEqual THEN ParseFrom(diffs, i + 1)
         ELSE IF IsPairAt(diffs, i)
              THEN <<DiffChange(DiffDelete, diff.Text \o Arrow \o diffs[i + 1].Text)>>
                   \o ParseFrom(diffs, i + 2)
              ELSE <<DiffChange(diff.Type, diff.Text)>> \o ParseFrom(diffs, i + 1)

parseDiffIntoChanges_EverySpan(original, corrected) ==
    LET diffs == DiffMain(original, corrected)
    IN [k \in 1..Len(diffs) |-> DiffChange(diffs[k].Type, diffs[k].Text)]

parseDiffIntoChanges(original, corrected) ==
    ParseFrom(DiffMain(original, corrected), 1)

----------------------------------------------------------------------------
(* buildReviewedTextFromDiffs *)

\* strings.Contains(change.Text, " → ")
HasArrow(change) == Contains(change.Text, Arrow)

PairedEmit_AppliedWritesBoth(change, delText, insText) ==
    IF change.Applied THEN delText \o insText ELSE delText

PairedEmit_SkippedWritesInsert(change, delText, insText) ==
    IF change.Applied THEN insText
    ELSE IF change.Skipped THEN insText
    ELSE delText

\* what a paired delete+insert writes for the change matched to it
PairedEmit(change, delText, insText) ==
    IF change.Applied THEN insText
    ELSE IF change.Skipped THEN delText
    ELSE delText

SingleDeleteEmit_SkippedDrops(change, delText) == <<>>

\* what a lone delete writes for the change matched to it
SingleDeleteEmit(change, delText) ==
    IF change.Skipped THEN delText ELSE <<>>

\* what a lone insert writes for the change matched to it
SingleInsertEmit(change, insText) ==
    IF change.Applied THEN insText ELSE <<>>

\* One iteration of the loop at span i with the next change changeIdx (both
\* 1-based): the text written, the span and change to go on with, and, for the
\* trace, the kind of span group and the change consumed (0: none).
ReplayStep(diffs, changes, i, changeIdx) ==
    LET diff == diffs[i]
        have == changeIdx <= Len(changes)
        step(g, e, ni, u) ==
            [group |-> g, emit |-> e, nextI |-> ni,
             nextIdx |-> IF u = 0 THEN changeIdx ELSE changeIdx + 1, unit |-> u]
    IN IF diff.Type = DiffEqual
       THEN step("equal", diff.Text, i + 1, 0)
       ELSE IF diff.Type = DiffDelete
       THEN IF IsPairAt(diffs, i)
            THEN LET ins == diffs[i + 1].Text IN
                 IF have /\ HasArrow(changes[changeIdx])
                 THEN step("pair",
                           PairedEmit(changes[changeIdx], diff.Text, ins), i + 2, changeIdx)
                 ELSE step("pair", diff.Text, i + 2, 0)
            ELSE IF have /\ changes[changeIdx].Type = DiffDelete
                         /\ ~HasArrow(changes[changeIdx])
                 THEN step("delete",
                           SingleDeleteEmit(changes[changeIdx], diff.Text), i + 1, changeIdx)
                 ELSE step("delete", diff.Text, i + 1, 0)
       ELSE IF have /\ changes[changeIdx].Type = DiffInsert
                    /\ ~HasArrow(changes[changeIdx])
            THEN step("insert",
                      SingleInsertEmit(changes[changeIdx], diff.Text), i + 1, changeIdx)
            ELSE step("insert", <<>>, i + 1, 0)

RECURSIVE ReplayFrom(_, _, _, _)
\* the loop from span i on: one record per span group handled
ReplayFrom(diffs, changes, i, changeIdx) ==
    IF i > Len(diffs) THEN <<>>
    ELSE LET s == ReplayStep(diffs, changes, i, changeIdx)
         IN <<s>> \o ReplayFrom(diffs, changes, s.nextI, s.nextIdx)

\* changeIdx := 0, a local of every call (1 here: the lists are 1-based)
ChangeIdxAtEntry == 1

ReplayTrace(original, corrected, changes) ==
    ReplayFrom(DiffMain(original, corrected), changes, 1, ChangeIdxAtEntry)

buildReviewedTextFromDiffs_WritesLeftover(original, corrected, changes) ==
    LET t == ReplayTrace(original, corrected, changes)
        used == IF t = <<>> THEN 1 ELSE t[Len(t)].nextIdx
        left == SubSeq(changes, used, Len(changes))
    IN Flatten([k \in 1..Len(t) |-> t[k].emit])
       \o Flatten([k \in 1..Len(left) |->
                      IF left[k].Applied /\ left[k].Type = DiffInsert
                      THEN left[k].Text ELSE <<>>])

\* result.String(): everything written, in order
buildReviewedTextFromDiffs(original, corrected, changes) ==
    LET t == ReplayTrace(original, corrected, changes)
    IN Flatten([k \in 1..Len(t) |-> t[k].emit])

----------------------------------------------------------------------------
(* Parts of the state that a specification does not drive *)

\* no rate limiter has been built and no goroutine calls Wait
NoLimiter ==
    /\ rl = <<>>
    /\ rlArgs = <<>>
    /\ rlNow = 0
    /\ rlAdvances = 0
    /\ rlPc = <<>>
    /\ rlWake = <<>>
    /\ rlCtx = <<>>
    /\ rlWaited = <<>>
    /\ rlErr = <<>>
    /\ rlAcquired = <<>>

\* Update returns no command
NoCmd == [kind |-> "nil", text |-> <<>>]

\* no message but keys has been handled
NoMsg == [msg |-> [type |-> "none"], cmd |-> NoCmd, set |-> "none"]

\* no translator is configured and the cache is disabled
NoTranslation ==
    /\ translator = FALSE
    /\ translatedText = <<>>
    /\ isTranslating = FALSE
    /\ error = <<>>
    /\ uiCache = [on |-> FALSE, entries |-> {}]
    /\ lastMsg = NoMsg

\* no cache has been opened
NoCache ==
    /\ cacheTTL = 0
    /\ cacheFiles = <<>>
    /\ cacheNow = 0
    /\ cacheAdvances = 0
    /\ cacheOps = 0
    /\ cacheOp = <<>>
    /\ cacheStored = <<>>

\* the replay functions are not called
NoReplay ==
    /\ fnOriginal = <<>>
    /\ fnCorrected = <<>>
    /\ fnChanges = <<>>
    /\ fnResult = <<>>
    /\ fnTrace = <<>>
    /\ fnPhase = "start"
    /\ fnCalls = 0

----------------------------------------------------------------------------
(* The Model after NewModel, before any message *)

ModeGlobal == "ModeGlobal"
ModeEditOriginal == "ModeEditOriginal"
ModeEditCorrected == "ModeEditCorrected"
ModeHelp == "ModeHelp"
ModeReviewDiff == "ModeReviewDiff"

NewModel(cfgShowDiff, cfgAutoCopy) ==
    /\ mode = ModeGlobal
    /\ originalText = <<>>
    /\ correctedText = <<>>
    /\ isLoading = FALSE
    /\ showDiff = cfgShowDiff
    /\ autoCopy = cfgAutoCopy
    /\ status = "Ready"
    /\ diffChanges = <<>>
    /\ currentChange = 0
    /\ reviewedText = <<>>
    /\ inFlight = <<>>
    /\ inputs = 0
    /\ sinkCall = <<>>
    /\ sessionCopies = 0

\* no message has reached the Model
NoSession == NewModel(FALSE, FALSE)

----------------------------------------------------------------------------
(* Update: one action per message kind.  A command (tea.Cmd) runs on its   *)
(* own goroutine; the step that handles its message also removes it from   *)
(* inFlight.  Every action records the clipboard.Copy call it made, if     *)
(* any, in sinkCall.                                                       *)

Keys == {"v", "c", "e", "o", "t", "r", "d", "a", "?", "tab", " ", "esc", "ctrl+s", "x"}

PasteCmd == [kind |-> "paste", text |-> <<>>]
CorrectCmd(text) == [kind |-> "correct", text |-> text]
TranslateCmd(text) == [kind |-> "translate", text |-> text]

\* c.Hash(text): the SHA-256 of the text, which tells texts apart
Hash(text) == <<"sha256", text>>

\* m.cache.Get(hash) for an entry that has not expired: its corrected text, ""
\* when there is no cache or no entry
CacheLookup(hash) ==
    IF uiCache.on /\ \E e \in uiCache.entries : e.hash = hash
    THEN (CHOOSE e \in uiCache.entries : e.hash = hash).corrected
    ELSE <<>>

\* what Get leaves of an entry that has expired
CacheExpire(hash) ==
    [uiCache EXCEPT !.entries = {e \in uiCache.entries : e.hash # hash}]

\* saveToCache(original, corrected)
saveToCache_UnderCorrected(original, corrected) ==
    IF uiCache.on
    THEN [uiCache EXCEPT !.entries =
            {e \in uiCache.entries : e.hash # Hash(corrected)}
            \cup {[hash |-> Hash(corrected), corrected |-> corrected]}]
    ELSE uiCache
saveToCache(original, corrected) ==
    IF uiCache.on
    THEN [uiCache EXCEPT !.entries =
            {e \in uiCache.entries : e.hash # Hash(original)}
            \cup {[hash |-> Hash(original), corrected |-> corrected]}]
    ELSE uiCache

Remove(seq, j) == SubSeq(seq, 1, j - 1) \o SubSeq(seq, j + 1, Len(seq))

\* the user may still bring in a text, and a command may still be started
CanInput == inputs < MaxInputs

CanLaunch == CanInput /\ Len(inFlight) < MaxInFlight

\* m.currentChange >= len(m.diffChanges), after the increment
AllReviewed_OffByOne(cur, changes) == cur > Len(changes)

AllReviewed_OneEarly(cur, changes) == cur >= Len(changes) - 1

AllReviewed(cur, changes) == cur >= Len(changes)

\* m.diffChanges[m.currentChange].Applied / .Skipped = ...
Decide_FromCursorOn(changes, cur, applied) ==
    [i \in 1..Len(changes) |->
        IF i > cur THEN [changes[i] EXCEPT !.Applied = applied, !.Skipped = ~applied]
        ELSE changes[i]]

Decide_BothFlags(changes, cur, applied) ==
    [changes EXCEPT ![cur + 1] = [@ EXCEPT !.Applied = TRUE, !.Skipped = ~applied]]

Decide(changes, cur, applied) ==
    [changes EXCEPT ![cur + 1] = [@ EXCEPT !.Applied = applied, !.Skipped = ~applied]]

\* if m.mode == ModeReviewDiff { return m.handleReviewMode(msg) }
RoutedToReview_ByChanges(m) == m = ModeReviewDiff \/ Len(diffChanges) > 0

RoutedToReview(m) == m = ModeReviewDiff

\* clipboard.Copy(m.reviewedText) of handleReviewMode
ReviewCopyArg_Original(reviewed, original) == original

ReviewCopyArg(reviewed, original) == reviewed

\* m.mode = ModeGlobal, after the copy whether or not it failed
ModeAfterCopy_StayOnFailure(copied) == IF copied THEN ModeGlobal ELSE ModeReviewDiff

ModeAfterCopy(copied) == ModeGlobal

\* The block that ends a review with text `final`: it becomes the corrected text,
\* the diff view is switched off, the text is copied (the copy may fail) and the
\* mode returns to ModeGlobal.
FinishReview_KeepsDiffView(final, what) ==
    /\ reviewedText' = final
    /\ correctedText' = final
    /\ showDiff' = showDiff
    /\ sinkCall' = <<ReviewCopyArg(final, originalText)>>
    /\ sessionCopies' = sessionCopies + 1
    /\ \E copied \in BOOLEAN :
        /\ status' = IF copied THEN what \o " (copied)" ELSE what \o " (copy failed)"
        /\ mode' = ModeAfterCopy(copied)

FinishReview(final, what) ==
    /\ reviewedText' = final
    /\ correctedText' = final
    /\ showDiff' = FALSE
    /\ sinkCall' = <<ReviewCopyArg(final, originalText)>>
    /\ sessionCopies' = sessionCopies + 1
    /\ \E copied \in BOOLEAN :
        /\ status' = IF copied THEN what \o " (copied)" ELSE what \o " (copy failed)"
        /\ mode' = ModeAfterCopy(copied)

\* the list the preview is rebuilt from: m.diffChanges as it is once the
\* decision has been recorded
PreviewArg_BeforeDecision(before, after) == before

PreviewArg(before, after) == after

\* case "tab" (applied = TRUE) and case " " (applied = FALSE)
ReviewDecide(applied) ==
    IF currentChange < Len(diffChanges)
    THEN LET changes == Decide(diffChanges, currentChange, applied)
             text == buildReviewedTextFromDiffs(originalText, correctedText,
                                                PreviewArg(diffChanges, changes))
         IN /\ diffChanges' = changes
            /\ currentChange' = currentChange + 1
            /\ IF AllReviewed(currentChange + 1, changes)
               THEN FinishReview(text, "All changes reviewed")
               ELSE /\ reviewedText' = text
                    /\ status' = "Reviewing changes"
                    /\ sinkCall' = <<>>
                    /\ UNCHANGED <<mode, correctedText, showDiff, sessionCopies>>
            /\ UNCHANGED <<originalText, isLoading, autoCopy, inFlight, inputs>>
    ELSE /\ sinkCall' = <<>>
         /\ UNCHANGED <<mode, originalText, correctedText, isLoading, showDiff, autoCopy,
                        status, diffChanges, currentChange, reviewedText, inFlight,
                        inputs, sessionCopies>>

\* case "esc"
ReviewExit ==
    /\ FinishReview(buildReviewedTextFromDiffs(originalText, correctedText, diffChanges),
                    "Review mode exited")
    /\ UNCHANGED <<originalText, isLoading, autoCopy, diffChanges, currentChange, inFlight, inputs>>

Ignore ==
    /\ sinkCall' = <<>>
    /\ UNCHANGED <<mode, originalText, correctedText, isLoading, showDiff, autoCopy, status,
                   diffChanges, currentChange, reviewedText, inFlight, inputs, sessionCopies>>

handleReviewMode(key) ==
    CASE key = "tab" -> ReviewDecide(TRUE)
      [] key = " " -> ReviewDecide(FALSE)
      [] key = "esc" -> ReviewExit
      [] OTHER -> Ignore

\* case "a", "A"
EnterReview ==
    IF originalText # <<>> /\ correctedText # <<>>
    THEN LET changes == parseDiffIntoChanges(originalText, correctedText) IN
         /\ diffChanges' = changes
         /\ currentChange' = 0
         /\ IF Len(changes) > 0
            THEN /\ mode' = ModeReviewDiff
                 /\ reviewedText' =
                        buildReviewedTextFromDiffs(originalText, correctedText, changes)
                 /\ status' = "Reviewing changes"
                 /\ sessionCopies' = 0
            ELSE /\ status' = "No changes to review"
                 /\ UNCHANGED <<mode, reviewedText, sessionCopies>>
         /\ sinkCall' = <<>>
         /\ UNCHANGED <<originalText, correctedText, isLoading, showDiff, autoCopy, inFlight, inputs>>
    ELSE Ignore

handleGlobalMode(key) ==
    CASE key = "v" ->
            /\ CanLaunch
            /\ inFlight' = Append(inFlight, PasteCmd)
            /\ inputs' = inputs + 1
            /\ sinkCall' = <<>>
            /\ UNCHANGED <<mode, originalText, correctedText, isLoading, showDiff, autoCopy,
                           status, diffChanges, currentChange, reviewedText, sessionCopies>>
      [] key = "c" ->
            IF correctedText # <<>>
            THEN /\ sinkCall' = <<correctedText>>
                 /\ \E copied \in BOOLEAN :
                        status' = IF copied THEN "Copied to clipboard" ELSE status
                 /\ UNCHANGED <<mode, originalText, correctedText, isLoading, showDiff,
                                autoCopy, diffChanges, currentChange, reviewedText, inFlight,
                                inputs, sessionCopies>>
            ELSE Ignore
      [] key = "e" ->
            IF correctedText # <<>>
            THEN /\ mode' = ModeEditCorrected
                 /\ sinkCall' = <<>>
                 /\ UNCHANGED <<originalText, correctedText, isLoading, showDiff, autoCopy,
                                status, diffChanges, currentChange, reviewedText, inFlight,
                                inputs, sessionCopies>>
            ELSE Ignore
      [] key = "o" ->
            IF originalText # <<>>
            THEN /\ mode' = ModeEditOriginal
                 /\ sinkCall' = <<>>
                 /\ UNCHANGED <<originalText, correctedText, isLoading, showDiff, autoCopy,
                                status, diffChanges, currentChange, reviewedText, inFlight,
                                inputs, sessionCopies>>
            ELSE Ignore
      [] key = "r" ->
            IF originalText # <<>>
            THEN /\ CanLaunch
                 /\ isLoading' = TRUE
                 /\ status' = "Correcting"
                 /\ inFlight' = Append(inFlight, CorrectCmd(originalText))
                 /\ inputs' = inputs + 1
                 /\ sinkCall' = <<>>
                 /\ UNCHANGED <<mode, originalText, correctedText, showDiff, autoCopy,
                                diffChanges, currentChange, reviewedText, sessionCopies>>
            ELSE Ignore
      [] key = "t" ->
            IF translatedText # <<>>
            THEN /\ sinkCall' = <<translatedText>>
                 /\ \E copied \in BOOLEAN :
                        status' = IF copied THEN "Translation copied to clipboard" ELSE status
                 /\ UNCHANGED <<mode, originalText, correctedText, isLoading, showDiff,
                                autoCopy, diffChanges, currentChange, reviewedText, inFlight,
                                inputs, sessionCopies>>
            ELSE Ignore
      [] key = "d" ->
            /\ showDiff' = ~showDiff
            /\ sinkCall' = <<>>
            /\ UNCHANGED <<mode, originalText, correctedText, isLoading, autoCopy, status,
                           diffChanges, currentChange, reviewedText, inFlight, inputs, sessionCopies>>
      [] key = "a" -> EnterReview
      [] key = "?" ->
            /\ mode' = ModeHelp
            /\ sinkCall' = <<>>
            /\ UNCHANGED <<originalText, correctedText, isLoading, showDiff, autoCopy, status,
                           diffChanges, currentChange, reviewedText, inFlight, inputs, sessionCopies>>
      [] OTHER -> Ignore

\* The text areas are not part of the state: an editor holds the text it
\* mirrors, or whatever the user has typed over it.
handleEditMode(key) ==
    CASE key = "esc" ->
            LET held == IF mode = ModeEditOriginal THEN originalText ELSE correctedText
                typed == IF CanInput THEN SessionTexts ELSE {}
            IN \E value \in typed \cup {held} :
                /\ mode' = ModeGlobal
                /\ IF mode = ModeEditOriginal
                   THEN /\ originalText' = trimTrailingWhitespace(value)
                        /\ UNCHANGED correctedText
                   ELSE /\ correctedText' = trimTrailingWhitespace(value)
                        /\ UNCHANGED originalText
                /\ inputs' = IF value = held THEN inputs ELSE inputs + 1
                /\ sinkCall' = <<>>
                /\ UNCHANGED <<isLoading, showDiff, autoCopy, status, diffChanges,
                               currentChange, reviewedText, inFlight, sessionCopies>>
      [] key = "ctrl+s" ->
            IF mode = ModeEditOriginal
            THEN /\ CanLaunch
                 /\ \E value \in SessionTexts :
                      /\ originalText' = trimTrailingWhitespace(value)
                      /\ inFlight' = Append(inFlight, CorrectCmd(trimTrailingWhitespace(value)))
                 /\ mode' = ModeGlobal
                 /\ isLoading' = TRUE
                 /\ status' = "Correcting"
                 /\ inputs' = inputs + 1
                 /\ sinkCall' = <<>>
                 /\ UNCHANGED <<correctedText, showDiff, autoCopy, diffChanges, currentChange,
                                reviewedText, sessionCopies>>
            ELSE Ignore
      [] OTHER -> Ignore

\* case tea.KeyMsg
\* case "r", "R" of handleGlobalMode with a text to correct: it also drops
\* the translation
RecorrectKey(key) ==
    /\ key = "r"
    /\ mode \notin {ModeHelp, ModeEditOriginal, ModeEditCorrected}
    /\ ~RoutedToReview(mode)
    /\ originalText # <<>>

UpdateKey(key) ==
    /\ IF mode = ModeHelp
       THEN IF key \in {"esc", "?"}
            THEN /\ mode' = ModeGlobal
                 /\ sinkCall' = <<>>
                 /\ UNCHANGED <<originalText, correctedText, isLoading, showDiff, autoCopy,
                                status, diffChanges, currentChange, reviewedText, inFlight,
                                inputs, sessionCopies>>
            ELSE Ignore
       ELSE IF RoutedToReview(mode) THEN handleReviewMode(key)
       ELSE IF mode \in {ModeEditOriginal, ModeEditCorrected} THEN handleEditMode(key)
       ELSE handleGlobalMode(key)
    /\ IF RecorrectKey(key)
       THEN /\ isTranslating' = FALSE
            /\ translatedText' = <<>>
            /\ UNCHANGED <<translator, error, uiCache>>
       ELSE UNCHANGED trVars
    /\ lastMsg' = NoMsg
    /\ UNCHANGED <<fnVars, rlVars, cacheVars>>

\* pasteAndCorrect returns errMsg (the clipboard cannot be read, or holds only
\* whitespace), correctionDoneMsg (the cache holds a correction of the text) or
\* textPastedMsg; case textPastedMsg starts the correction. An entry that has
\* expired is removed by Get and counts as none.
StartCorrection_Untrimmed(text) == CorrectCmd(text)
StartCorrection(text) == CorrectCmd(trimTrailingWhitespace(text))

\* case textPastedMsg of Update, for a message from `from`; rest is what is
\* in flight besides
HandleTextPasted(from, text, rest) ==
    /\ originalText' = trimTrailingWhitespace(text)
    /\ correctedText' = <<>>
    /\ translatedText' = <<>>
    /\ isLoading' = TRUE
    /\ isTranslating' = FALSE
    /\ status' = "Correcting"
    /\ inFlight' = Append(rest, StartCorrection(text))
    /\ sinkCall' = <<>>
    /\ lastMsg' = [msg |-> [type |-> "textPastedMsg", from |-> from, text |-> text],
                   cmd |-> StartCorrection(text), set |-> "none"]
    /\ UNCHANGED <<mode, showDiff, autoCopy, diffChanges, currentChange, reviewedText,
                   sessionCopies, translator, error>>

\* pasteAndCorrect finds no correction in the cache and returns textPastedMsg
UpdateTextPasted(j, pasted) ==
    /\ j \in 1..Len(inFlight)
    /\ inFlight[j].kind = "paste"
    /\ trimTrailingWhitespace(pasted) # <<>>
    /\ LET hash == Hash(trimTrailingWhitespace(pasted))
       IN  \E expired \in BOOLEAN :
              /\ expired => CacheLookup(hash) # <<>>
              /\ CacheLookup(hash) # <<>> => expired
              /\ uiCache' = IF expired THEN CacheExpire(hash) ELSE uiCache
    /\ HandleTextPasted("paste", trimTrailingWhitespace(pasted), Remove(inFlight, j))
    /\ UNCHANGED inputs
    /\ UNCHANGED <<fnVars, rlVars, cacheVars>>

\* whether case correctionDoneMsg goes on to translate
StartsTranslation_Always(corrected) == TRUE
StartsTranslation(corrected) ==
    translator /\ trimTrailingWhitespace(corrected) # <<>>

\* case correctionDoneMsg of Update
HandleCorrectionDone_KeepsOriginal(from, original, corrected, rest, set) ==
    /\ originalText' = originalText
    /\ correctedText' = trimTrailingWhitespace(corrected)
    /\ isLoading' = FALSE
    /\ sinkCall' = IF autoCopy THEN <<trimTrailingWhitespace(corrected)>> ELSE <<>>
    /\ IF StartsTranslation(corrected)
       THEN /\ isTranslating' = TRUE
            /\ status' = "Done, translating"
            /\ inFlight' = Append(rest, TranslateCmd(trimTrailingWhitespace(corrected)))
       ELSE /\ status' = IF autoCopy THEN "Done (copied)" ELSE "Done"
            /\ inFlight' = rest
            /\ UNCHANGED isTranslating
    /\ lastMsg' = [msg |-> [type |-> "correctionDoneMsg", from |-> from,
                            original |-> original, corrected |-> corrected],
                   cmd |-> IF StartsTranslation(corrected)
                           THEN TranslateCmd(trimTrailingWhitespace(corrected))
                           ELSE NoCmd,
                   set |-> set]
    /\ UNCHANGED <<mode, showDiff, autoCopy, diffChanges, currentChange, reviewedText,
                   sessionCopies, translator, translatedText, error>>

HandleCorrectionDone(from, original, corrected, rest, set) ==
    /\ originalText' = trimTrailingWhitespace(original)
    /\ correctedText' = trimTrailingWhitespace(corrected)
    /\ isLoading' = FALSE
    /\ sinkCall' = IF autoCopy THEN <<trimTrailingWhitespace(corrected)>> ELSE <<>>
    /\ IF StartsTranslation(corrected)
       THEN /\ isTranslating' = TRUE
            /\ status' = "Done, translating"
            /\ inFlight' = Append(rest, TranslateCmd(trimTrailingWhitespace(corrected)))
       ELSE /\ status' = IF autoCopy THEN "Done (copied)" ELSE "Done"
            /\ inFlight' = rest
            /\ UNCHANGED isTranslating
    /\ lastMsg' = [msg |-> [type |-> "correctionDoneMsg", from |-> from,
                            original |-> original, corrected |-> corrected],
                   cmd |-> IF StartsTranslation(corrected)
                           THEN TranslateCmd(trimTrailingWhitespace(corrected))
                           ELSE NoCmd,
                   set |-> set]
    /\ UNCHANGED <<mode, showDiff, autoCopy, diffChanges, currentChange, reviewedText,
                   sessionCopies, translator, translatedText, error>>

\* pasteAndCorrect finds a correction in the cache and returns correctionDoneMsg
UpdatePasteHit(j, pasted) ==
    /\ j \in 1..Len(inFlight)
    /\ inFlight[j].kind = "paste"
    /\ trimTrailingWhitespace(pasted) # <<>>
    /\ CacheLookup(Hash(trimTrailingWhitespace(pasted))) # <<>>
    /\ HandleCorrectionDone("paste", trimTrailingWhitespace(pasted),
            trimTrailingWhitespace(CacheLookup(Hash(trimTrailingWhitespace(pasted)))),
            Remove(inFlight, j), "none")
    /\ UNCHANGED <<inputs, uiCache>>
    /\ UNCHANGED <<fnVars, rlVars, cacheVars>>

\* msg.Error() of the errMsg of a command that failed
ErrorOf(cmd) == <<"failed", cmd.kind>>

\* case errMsg of Update
HandleErr(from, err, rest, set) ==
    /\ error' = err
    /\ isLoading' = FALSE
    /\ status' = "Error"
    /\ inFlight' = rest
    /\ sinkCall' = <<>>
    /\ lastMsg' = [msg |-> [type |-> "errMsg", from |-> from, err |-> err], cmd |-> NoCmd,
                   set |-> set]
    /\ UNCHANGED <<mode, originalText, correctedText, showDiff, autoCopy, diffChanges,
                   currentChange, reviewedText, sessionCopies,
                   translator, translatedText, isTranslating>>

\* what m.cache.Set may return to saveToCache: nothing without a cache, else
\* nil or an error (os.WriteFile fails)
SetResults == IF uiCache.on THEN {"nil", "error"} ELSE {"none"}

\* what a Set that returned an error leaves behind: the directory as it was, or
\* the file of that hash truncated, which Get no longer reads
FailedSet(original) == {uiCache, CacheExpire(Hash(original))}

\* the message streamCorrection / correctText return once the provider has
\* answered and saveToCache has been called
SentAfterSave_ErrOnFailure(original, corrected, set) ==
    IF set = "error"
    THEN [type |-> "errMsg", err |-> <<"failed", "cache">>]
    ELSE [type |-> "correctionDoneMsg", original |-> original, corrected |-> corrected]
SentAfterSave(original, corrected, set) ==
    [type |-> "correctionDoneMsg", original |-> original, corrected |-> corrected]

\* streamCorrection / correctText succeed for inFlight[j]: the result is saved
\* to the cache, which may fail, and sent as correctionDoneMsg
UpdateCorrectionDone(j, output) ==
    /\ j \in 1..Len(inFlight)
    /\ inFlight[j].kind = "correct"
    /\ \E set \in SetResults :
          LET text == inFlight[j].text
              trimmedCorrected == trimTrailingWhitespace(output)
              msg == SentAfterSave(text, trimmedCorrected, set)
          IN  /\ IF set = "error"
                 THEN uiCache' \in FailedSet(text)
                 ELSE uiCache' = saveToCache(text, trimmedCorrected)
              /\ IF msg.type = "correctionDoneMsg"
                 THEN HandleCorrectionDone("correct", msg.original, msg.corrected,
                                           Remove(inFlight, j), set)
                 ELSE HandleErr("correct", msg.err, Remove(inFlight, j), set)
    /\ UNCHANGED inputs
    /\ UNCHANGED <<fnVars, rlVars, cacheVars>>

\* case translationDoneMsg, sent by streamTranslation for inFlight[j]
UpdateTranslationDone(j, output) ==
    /\ j \in 1..Len(inFlight)
    /\ inFlight[j].kind = "translate"
    /\ translatedText' = trimTrailingWhitespace(trimTrailingWhitespace(output))
    /\ isTranslating' = FALSE
    /\ status' = IF status = "Done, translating" THEN "Done, translated" ELSE status
    /\ inFlight' = Remove(inFlight, j)
    /\ sinkCall' = <<>>
    /\ lastMsg' = [msg |-> [type |-> "translationDoneMsg", from |-> "translate",
                            translated |-> trimTrailingWhitespace(output)],
                   cmd |-> NoCmd, set |-> "none"]
    /\ UNCHANGED <<mode, originalText, correctedText, isLoading, showDiff, autoCopy,
                   diffChanges, currentChange, reviewedText, inputs, sessionCopies,
                   translator, error, uiCache>>
    /\ UNCHANGED <<fnVars, rlVars, cacheVars>>

\* a command fails and sends errMsg
UpdateErr(j) ==
    /\ j \in 1..Len(inFlight)
    /\ HandleErr(inFlight[j].kind, ErrorOf(inFlight[j]), Remove(inFlight, j), "none")
    /\ UNCHANGED <<inputs, uiCache>>
    /\ UNCHANGED <<fnVars, rlVars, cacheVars>>

\* a message handed straight to Update, as TestUpdateMessageHandling does
SendTextPasted(text) ==
    /\ CanLaunch
    /\ inputs' = inputs + 1
    /\ HandleTextPasted("test", text, inFlight)
    /\ UNCHANGED uiCache
    /\ UNCHANGED <<fnVars, rlVars, cacheVars>>

SendCorrectionDone(original, corrected) ==
    /\ CanLaunch
    /\ inputs' = inputs + 1
    /\ HandleCorrectionDone("test", original, corrected, inFlight, "none")
    /\ UNCHANGED uiCache
    /\ UNCHANGED <<fnVars, rlVars, cacheVars>>

SendErr ==
    /\ CanInput
    /\ inputs' = inputs + 1
    /\ HandleErr("test", <<"boom">>, inFlight, "none")
    /\ UNCHANGED uiCache
    /\ UNCHANGED <<fnVars, rlVars, cacheVars>>

Init ==
    /\ \E cfgShowDiff, cfgAutoCopy \in BOOLEAN : NewModel(cfgShowDiff, cfgAutoCopy)
    /\ fnOriginal = <<>>
    /\ fnCorrected = <<>>
    /\ fnChanges = <<>>
    /\ fnResult = <<>>
    /\ fnTrace = <<>>
    /\ fnPhase = "start"
    /\ fnCalls = 0
    /\ NoLimiter
    /\ NoCache
    /\ NoTranslation

Next ==
    \/ \E key \in Keys : UpdateKey(key)
    \/ \E j \in 1..MaxInFlight, pasted \in SessionTexts : UpdateTextPasted(j, pasted)
    \/ \E j \in 1..MaxInFlight, output \in SessionTexts : UpdateCorrectionDone(j, output)
    \/ \E j \in 1..MaxInFlight : UpdateErr(j)

Spec == Init /\ [][Next]_vars

----------------------------------------------------------------------------
(* The Model with a translator and a cache configured *)

\* the keys that bring in text or copy it
MsgKeys == {"v", "r", "c", "t"}

\* the texts pasted and returned by the provider, and the corrections a cache
\* holds from earlier runs (saved by saveToCache, hence trimmed)
MsgTexts == {<<>>, <<"a">>, <<"a", " ">>, <<"b">>}
EarlierEntries == { {}, {[hash |-> Hash(<<"a">>), corrected |-> <<"a", "a">>]} }

InitMsg ==
    /\ \E cfgAutoCopy \in BOOLEAN : NewModel(FALSE, cfgAutoCopy)
    /\ NoReplay
    /\ NoLimiter
    /\ NoCache
    /\ translator \in BOOLEAN
    /\ translatedText = <<>>
    /\ isTranslating = FALSE
    /\ error = <<>>
    /\ lastMsg = NoMsg
    /\ \/ uiCache = [on |-> FALSE, entries |-> {}]
       \/ \E entries \in EarlierEntries : uiCache = [on |-> TRUE, entries |-> entries]

NextMsg ==
    \/ \E key \in MsgKeys : UpdateKey(key)
    \/ \E j \in 1..MaxInFlight, pasted \in MsgTexts : UpdateTextPasted(j, pasted)
    \/ \E j \in 1..MaxInFlight, pasted \in MsgTexts : UpdatePasteHit(j, pasted)
    \/ \E j \in 1..MaxInFlight, output \in MsgTexts : UpdateCorrectionDone(j, output)
    \/ \E j \in 1..MaxInFlight, output \in MsgTexts : UpdateTranslationDone(j, output)
    \/ \E j \in 1..MaxInFlight : UpdateErr(j)
    \/ \E text \in MsgTexts : SendTextPasted(text)
    \/ \E original, corrected \in MsgTexts : SendCorrectionDone(original, corrected)
    \/ SendErr

SpecMsg == InitMsg /\ [][NextMsg]_vars

----------------------------------------------------------------------------
(* SpecReplay: the two functions called directly *)

Decisions == {"Undecided", "Applied", "Skipped"}

DecisionOf(change) ==
    IF change.Applied THEN "Applied" ELSE IF change.Skipped THEN "Skipped" ELSE "Undecided"

WithDecision(change, d) ==
    [change EXCEPT !.Applied = (d = "Applied"), !.Skipped = (d = "Skipped")]

InitReplay ==
    /\ NewModel(FALSE, FALSE)
    /\ fnOriginal \in Texts
    /\ fnCorrected \in Texts
    /\ fnChanges = <<>>
    /\ fnResult = <<>>
    /\ fnTrace = <<>>
    /\ fnPhase = "start"
    /\ fnCalls = 0
    /\ NoLimiter
    /\ NoCache
    /\ NoTranslation

\* changes := parseDiffIntoChanges(original, corrected)
FnParse ==
    /\ fnPhase = "start"
    /\ fnChanges' = parseDiffIntoChanges(fnOriginal, fnCorrected)
    /\ fnPhase' = "built"
    /\ UNCHANGED <<fnOriginal, fnCorrected, fnResult, fnTrace, fnCalls>>
    /\ UNCHANGED <<modelVars, rlVars, cacheVars>>

\* changes[i].Applied, changes[i].Skipped := ... (the tests' setupFunc)
FnMark(i, d) ==
    /\ fnPhase = "built"
    /\ i \in 1..Len(fnChanges)
    /\ DecisionOf(fnChanges[i]) = "Undecided"
    /\ d # "Undecided"
    /\ fnChanges' = [fnChanges EXCEPT ![i] = WithDecision(@, d)]
    /\ UNCHANGED <<fnOriginal, fnCorrected, fnResult, fnTrace, fnPhase, fnCalls>>
    /\ UNCHANGED <<modelVars, rlVars, cacheVars>>

\* changes = changes[:len(changes)-1]: a caller that hands over a list shorter
\* than the one parseDiffIntoChanges returned
FnTruncate ==
    /\ fnPhase \in {"built", "cut"}
    /\ fnChanges # <<>>
    /\ fnChanges' = SubSeq(fnChanges, 1, Len(fnChanges) - 1)
    /\ fnPhase' = "cut"
    /\ UNCHANGED <<fnOriginal, fnCorrected, fnResult, fnTrace, fnCalls>>
    /\ UNCHANGED <<modelVars, rlVars, cacheVars>>

\* the units a caller may append: of either type, with a plain or a paired
\* text, marked Applied as in the test "changes longer than diffs"
ExtraUnits ==
    {[Type |-> t, Text |-> x, Applied |-> TRUE, Skipped |-> FALSE] :
        t \in {DiffDelete, DiffInsert},
        x \in {<<"a">>, <<"a">> \o Arrow \o <<"a">>}}

\* changes = append(changes, extra): more changes than the diff has groups
FnExtend(extra) ==
    /\ fnPhase \in {"built", "extended"}
    /\ Len(fnChanges) < Len(parseDiffIntoChanges(fnOriginal, fnCorrected)) + MaxExtra
    /\ fnChanges' = Append(fnChanges, extra)
    /\ fnPhase' = "extended"
    /\ UNCHANGED <<fnOriginal, fnCorrected, fnResult, fnTrace, fnCalls>>
    /\ UNCHANGED <<modelVars, rlVars, cacheVars>>

\* result := buildReviewedTextFromDiffs(original, corrected, changes)
\* The call is made on the list as parseDiffIntoChanges built it ("replayed"),
\* on a shortened list ("replayedCut") or on a lengthened one
\* ("replayedExtended"), and may be made again on the same arguments.
FnReplay ==
    /\ fnPhase # "start"
    /\ fnCalls < MaxCalls
    /\ fnResult' = buildReviewedTextFromDiffs(fnOriginal, fnCorrected, fnChanges)
    /\ fnTrace' = ReplayTrace(fnOriginal, fnCorrected, fnChanges)
    /\ fnPhase' = CASE fnPhase = "built" -> "replayed"
                     [] fnPhase = "cut" -> "replayedCut"
                     [] fnPhase = "extended" -> "replayedExtended"
                     [] OTHER -> fnPhase
    /\ fnCalls' = fnCalls + 1
    /\ UNCHANGED <<fnOriginal, fnCorrected, fnChanges>>
    /\ UNCHANGED <<modelVars, rlVars, cacheVars>>

NextReplay ==
    \/ FnParse
    \/ \E i \in 1..MaxLen + 1, d \in Decisions : FnMark(i, d)
    \/ FnTruncate
    \/ \E extra \in ExtraUnits : FnExtend(extra)
    \/ FnReplay

SpecReplay == InitReplay /\ [][NextReplay]_vars

----------------------------------------------------------------------------
(* Claims about the replay functions (SpecReplay) *)

RECURSIVE SpanGroups(_, _)
\* The span groups of a diff by the grouping rule of section 4.1, Equal spans
\* included: each with its original-side and its corrected-side text.
SpanGroups(diffs, i) ==
    IF i > Len(diffs) THEN <<>>
    ELSE IF diffs[i].Type = DiffEqual
         THEN <<[kind |-> "equal", orig |-> diffs[i].Text, prop |-> diffs[i].Text]>>
              \o SpanGroups(diffs, i + 1)
    ELSE IF diffs[i].Type = DiffDelete /\ i < Len(diffs) /\ diffs[i + 1].Type = DiffInsert
         THEN <<[kind |-> "pair", orig |-> diffs[i].Text, prop |-> diffs[i + 1].Text]>>
              \o SpanGroups(diffs, i + 2)
    ELSE IF diffs[i].Type = DiffDelete
         THEN <<[kind |-> "delete", orig |-> diffs[i].Text, prop |-> <<>>]>>
              \o SpanGroups(diffs, i + 1)
         ELSE <<[kind |-> "insert", orig |-> <<>>, prop |-> diffs[i].Text]>>
              \o SpanGroups(diffs, i + 1)

FnGroups == SpanGroups(DiffMain(fnOriginal, fnCorrected), 1)

AllMarked(changes, d) == \A i \in 1..Len(changes) : DecisionOf(changes[i]) = d

\* C1: accept-all round trip. Replaying the list parseDiffIntoChanges returned,
\* every unit marked Applied, returns exactly corrected.
C1_AcceptAllReturnsCorrected ==
    (fnPhase = "replayed" /\ AllMarked(fnChanges, "Applied")) => fnResult = fnCorrected

\* C2: reject-all round trip. Replaying the list parseDiffIntoChanges returned,
\* every unit marked Skipped, returns exactly original.
C2_RejectAllReturnsOriginal ==
    (fnPhase = "replayed" /\ AllMarked(fnChanges, "Skipped")) => fnResult = fnOriginal

C2_Witness ==
    /\ fnPhase = "replayed"
    /\ Len(fnChanges) >= 2
    /\ AllMarked(fnChanges, "Skipped")
    /\ \E i \in 1..Len(fnChanges) : HasArrow(fnChanges[i])
    /\ fnResult # fnCorrected

\* The k-th record of the trace is what the replay wrote for the k-th span group.
\* For a group of the given kind whose unit was matched and consumed,
\* Wrote(k, kind, d, text) says: if that unit's decision is d, text was written.
TraceAligned == Len(fnTrace) = Len(FnGroups)

Wrote(k, kind, d, text) ==
    (/\ FnGroups[k].kind = kind
     /\ fnTrace[k].unit # 0
     /\ DecisionOf(fnChanges[fnTrace[k].unit]) = d) => fnTrace[k].emit = text

\* C3: decided-unit policy. For a unit matched to its span group, a Substitution
\* writes proposed when Applied and original when Skipped; a Deletion writes
\* nothing when Applied and original when Skipped; an Insertion writes proposed
\* when Applied and nothing when Skipped.
C3_DecidedUnitPolicy ==
    fnPhase = "replayed" =>
        /\ TraceAligned
        /\ \A k \in 1..Len(fnTrace) :
            /\ Wrote(k, "pair", "Applied", FnGroups[k].prop)
            /\ Wrote(k, "pair", "Skipped", FnGroups[k].orig)
            /\ Wrote(k, "delete", "Applied", <<>>)
            /\ Wrote(k, "delete", "Skipped", FnGroups[k].orig)
            /\ Wrote(k, "insert", "Applied", FnGroups[k].prop)
            /\ Wrote(k, "insert", "Skipped", <<>>)

Matched(k, kind, d) ==
    /\ k \in 1..Len(fnTrace)
    /\ FnGroups[k].kind = kind
    /\ fnTrace[k].unit # 0
    /\ DecisionOf(fnChanges[fnTrace[k].unit]) = d

C3_Witness ==
    /\ fnPhase = "replayed"
    /\ \E j, k \in 1..Len(fnTrace) :
        /\ Matched(j, "pair", "Applied")
        /\ Matched(k, "delete", "Skipped")
        /\ fnTrace[j].emit # <<>>
        /\ fnTrace[k].emit # <<>>

\* C4: undecided-unit policy. For a unit present in the list and Undecided, the
\* replay writes original for a Substitution, original for a Deletion and
\* nothing for an Insertion.
C4_UndecidedUnitPolicy ==
    fnPhase = "replayed" =>
        \A k \in 1..Len(fnTrace) :
            /\ Wrote(k, "pair", "Undecided", FnGroups[k].orig)
            /\ Wrote(k, "delete", "Undecided", FnGroups[k].orig)
            /\ Wrote(k, "insert", "Undecided", <<>>)

RECURSIVE SideChoices(_)
\* every text made of the Equal spans verbatim and, for each other group, either
\* its original side or its corrected side, in span order
SideChoices(groups) ==
    IF groups = <<>> THEN {<<>>}
    ELSE LET g == Head(groups)
             here == IF g.kind = "equal" THEN {g.orig} ELSE {g.orig, g.prop}
         IN {x \o r : x \in here, r \in SideChoices(Tail(groups))}

\* C7: partial decisions never corrupt text. For every assignment of Applied,
\* Skipped and Undecided to the units, the replay result is the in-order
\* concatenation of every Equal span and, per group, one of its two sides.
C7_ResultIsASideChoice ==
    fnPhase = "replayed" => fnResult \in SideChoices(FnGroups)

C7_Witness ==
    /\ fnPhase = "replayed"
    /\ \E i, j \in 1..Len(fnChanges) :
        /\ DecisionOf(fnChanges[i]) = "Applied"
        /\ DecisionOf(fnChanges[j]) # "Applied"
    /\ fnResult # fnOriginal
    /\ fnResult # fnCorrected

\* C13: identical inputs. For every text o, parseDiffIntoChanges(o, o) is the
\* empty list and buildReviewedTextFromDiffs(o, o, []) returns o.
C13_IdenticalInputs ==
    fnOriginal = fnCorrected =>
        /\ fnPhase = "built" => fnChanges = <<>>
        /\ fnPhase = "replayed" => (fnChanges = <<>> /\ fnResult = fnOriginal)

C13_Witness ==
    /\ fnPhase = "replayed"
    /\ fnOriginal = fnCorrected
    /\ Len(fnOriginal) >= 2
    /\ Contains(fnOriginal, <<"→">>)
    /\ fnResult = fnOriginal

\* the rank of span group k among the groups that are not Equal
NonEqualRank(k) == Cardinality({i \in 1..k : FnGroups[i].kind # "equal"})

\* C14: short-list fallback. When the list is shorter than the number of groups
\* that are not Equal, every group beyond the end of the list is resolved toward
\* the original (a Substitution and a Deletion write original, an Insertion
\* writes nothing); with the empty list the replay returns original.
C14_ShortListFallback ==
    fnPhase = "replayedCut" =>
        /\ TraceAligned
        /\ \A k \in 1..Len(fnTrace) :
              (FnGroups[k].kind # "equal" /\ NonEqualRank(k) > Len(fnChanges))
                  => fnTrace[k].emit = FnGroups[k].orig
        /\ fnChanges = <<>> => fnResult = fnOriginal

\* the part of C14 that holds: the replay of the empty list returns original
EmptyListReturnsOriginal ==
    (fnPhase = "replayedCut" /\ fnChanges = <<>>) => fnResult = fnOriginal

\* the number of span groups that are not Equal
GroupCount == NonEqualRank(Len(FnGroups))

\* C15: extra trailing units are ignored. For a list L that covers every group
\* and extra units X appended to it, the replay of L ++ X returns what the replay
\* of L returns; for an identical pair it returns original whatever X is.
C15_ExtraUnitsIgnored ==
    fnPhase = "replayedExtended" =>
        /\ Len(fnChanges) > GroupCount
        /\ fnResult = buildReviewedTextFromDiffs(fnOriginal, fnCorrected,
                                                 SubSeq(fnChanges, 1, GroupCount))
        /\ fnOriginal = fnCorrected => fnResult = fnOriginal

C15_Witness ==
    /\ fnPhase = "replayedExtended"
    /\ GroupCount >= 2
    /\ Len(fnChanges) > GroupCount
    /\ fnChanges[Len(fnChanges)].Type = DiffInsert
    /\ \E i \in 1..GroupCount : fnChanges[i].Applied
    /\ fnResult # fnOriginal

\* the span groups that are not Equal, in span order
RECURSIVE EditGroups(_)
EditGroups(groups) ==
    IF groups = <<>> THEN <<>>
    ELSE IF Head(groups).kind = "equal" THEN EditGroups(Tail(groups))
    ELSE <<Head(groups)>> \o EditGroups(Tail(groups))

\* the unit the builder is to make of a group
UnitOfGroup(g, unit) ==
    CASE g.kind = "pair" ->
            unit.Type = DiffDelete /\ unit.Text = g.orig \o Arrow \o g.prop
      [] g.kind = "delete" -> unit.Type = DiffDelete /\ unit.Text = g.orig
      [] g.kind = "insert" -> unit.Type = DiffInsert /\ unit.Text = g.prop

\* C17: grouping rule of the builder. Equal spans produce no unit; a Delete
\* immediately followed by an Insert produces exactly one unit that holds both
\* texts; any other Delete produces one Deletion unit and any other Insert one
\* Insertion unit; the units are in span order, one per group.
C17_BuilderGrouping ==
    fnPhase = "built" =>
        /\ Len(fnChanges) = Len(EditGroups(FnGroups))
        /\ \A j \in 1..Len(fnChanges) : UnitOfGroup(EditGroups(FnGroups)[j], fnChanges[j])

C17_Witness ==
    /\ fnPhase = "built"
    /\ Len(fnChanges) >= 2
    /\ \E i, j \in 1..Len(fnChanges) :
        /\ EditGroups(FnGroups)[i].kind = "pair"
        /\ EditGroups(FnGroups)[j].kind # "pair"
    /\ \E k \in 1..Len(FnGroups) : FnGroups[k].kind = "equal"

\* C18: builder and replay stay in lockstep. Replaying the list
\* parseDiffIntoChanges returned, the i-th group that is not Equal is resolved by
\* the i-th unit, one unit is consumed per group, and every unit has been
\* consumed when the walk ends.
C18_Lockstep ==
    fnPhase = "replayed" =>
        /\ TraceAligned
        /\ \A k \in 1..Len(fnTrace) :
              FnGroups[k].kind # "equal" => fnTrace[k].unit = NonEqualRank(k)
        /\ (IF fnTrace = <<>> THEN 1 ELSE fnTrace[Len(fnTrace)].nextIdx)
              = Len(fnChanges) + 1

----------------------------------------------------------------------------
(* Claims about the review session (Spec) *)

Apply == UpdateKey("tab")
Skip == UpdateKey(" ")
Exit == UpdateKey("esc")

Reviewing == mode = ModeReviewDiff

RECURSIVE ResolveGroups(_, _, _, _)
\* The text section 4.2 prescribes when the j-th group that is not Equal is
\* resolved by the j-th unit: units 1..k by their recorded decision, the units
\* after k toward the original (original side kept, insertion suppressed).
ResolveGroups(groups, changes, k, j) ==
    IF groups = <<>> THEN <<>>
    ELSE LET g == Head(groups) IN
         IF g.kind = "equal" THEN g.orig \o ResolveGroups(Tail(groups), changes, k, j)
         ELSE (IF j <= k /\ j <= Len(changes) /\ changes[j].Applied THEN g.prop ELSE g.orig)
              \o ResolveGroups(Tail(groups), changes, k, j + 1)

ConservativeText(original, corrected, changes, k) ==
    ResolveGroups(SpanGroups(DiffMain(original, corrected), 1), changes, k, 1)

\* C5: Exit mid-review is conservative. Exit at cursor k < len finalizes, and the
\* final text keeps the decisions of the units below k and resolves every unit
\* from k on toward the original; Exit at k = 0 yields original.
C5_ExitIsConservative ==
    [][(Reviewing /\ currentChange < Len(diffChanges) /\ Exit) =>
          /\ mode' = ModeGlobal
          /\ correctedText' =
                ConservativeText(originalText, correctedText, diffChanges, currentChange)
          /\ (currentChange = 0 => correctedText' = originalText)]_vars

\* C6 as claimed: cursor == len(changeUnits) if and only if the session is
\* Complete (has left ModeReviewDiff).
C6_CursorAtEndIffComplete ==
    (currentChange = Len(diffChanges)) <=> ~Reviewing

\* C6 as amended: cursor == len(changeUnits) implies the session is Complete;
\* a session completed by Exit keeps its cursor below len.
C6_CursorAtEndImpliesComplete ==
    (currentChange = Len(diffChanges)) => ~Reviewing

C6_Witness ==
    /\ ~Reviewing
    /\ Len(diffChanges) >= 2
    /\ currentChange = Len(diffChanges)
    /\ sessionCopies = 1

CorrectionArrives ==
    \/ \E j \in 1..MaxInFlight, output \in SessionTexts : UpdateCorrectionDone(j, output)
    \/ \E j \in 1..MaxInFlight : UpdateErr(j)

\* C8: an asynchronous correction never reaches a started review session. While
\* Reviewing, the arrival of a correction result or an error leaves the
\* original/corrected pair, the change units, the cursor and the decisions
\* unchanged.
C8_CorrectionLeavesSessionAlone ==
    [][(Reviewing /\ CorrectionArrives) =>
          UNCHANGED <<originalText, correctedText, diffChanges, currentChange>>]_vars

CopyFailedStatus == {"All changes reviewed (copy failed)", "Review mode exited (copy failed)"}

\* C11: a failing clipboard commit is non-fatal. When clipboard.Copy fails at
\* finalization the session still becomes Complete (mode ModeGlobal), the
\* corrected text is the replay of the decisions made, and only the status line
\* tells the failure from a success.
C11_CopyFailureIsNonFatal ==
    [][(Reviewing /\ (Apply \/ Skip \/ Exit) /\ status' \in CopyFailedStatus) =>
          /\ mode' = ModeGlobal
          /\ correctedText' =
                buildReviewedTextFromDiffs(originalText, correctedText, diffChanges')
          /\ reviewedText' = correctedText'
          /\ sinkCall' = <<correctedText'>>
          /\ ~showDiff'
          /\ UNCHANGED <<originalText, isLoading, inFlight>>]_vars

C11_Witness ==
    /\ status \in CopyFailedStatus
    /\ mode = ModeGlobal
    /\ Len(diffChanges) >= 2
    /\ correctedText = reviewedText
    /\ correctedText # originalText
    /\ sinkCall = <<correctedText>>

\* C12: Complete is terminal and re-entry is fresh. The only step that takes the
\* Model into review is key A, and it rebuilds the change units from the current
\* original and corrected text, with the cursor at 0 and every unit Undecided.
C12_ReentryIsFresh ==
    [][(~Reviewing /\ mode' = ModeReviewDiff) =>
          /\ UpdateKey("a")
          /\ diffChanges' = parseDiffIntoChanges(originalText', correctedText')
          /\ Len(diffChanges') > 0
          /\ currentChange' = 0
          /\ AllMarked(diffChanges', "Undecided")
          /\ UNCHANGED <<originalText, correctedText>>]_vars

\* a second session: a corrected text of three characters is the product of a
\* completed review, and it is under review again
C12_Witness ==
    /\ Reviewing
    /\ Len(correctedText) = 3
    /\ currentChange = 0
    /\ Len(diffChanges) > 0
    /\ AllMarked(diffChanges, "Undecided")

\* the session half of C13: key A on an identical pair does not enter review
IdenticalPairStaysOutOfReview ==
    [][(mode = ModeGlobal /\ originalText = correctedText /\ UpdateKey("a")) =>
          /\ mode' = ModeGlobal
          /\ diffChanges' = IF originalText = <<>> THEN diffChanges ELSE <<>>]_vars

\* what Apply or Skip is to do to the unit at the cursor, and to nothing else
DecidesAtCursor(d) ==
    /\ Len(diffChanges') = Len(diffChanges)
    /\ DecisionOf(diffChanges'[currentChange + 1]) = d
    /\ diffChanges'[currentChange + 1].Type = diffChanges[currentChange + 1].Type
    /\ diffChanges'[currentChange + 1].Text = diffChanges[currentChange + 1].Text
    /\ \A i \in 1..Len(diffChanges) : i # currentChange + 1 => diffChanges'[i] = diffChanges[i]
    /\ currentChange' = currentChange + 1
    /\ originalText' = originalText

\* C19: effect of Apply and Skip. In review with the cursor below len, Apply
\* sets the decision of the unit at the cursor to Applied and Skip sets it to
\* Skipped; each advances the cursor by exactly one and leaves the decisions of
\* all other units and the original text unchanged.
C19_ApplySkipEffect ==
    [][/\ (Reviewing /\ currentChange < Len(diffChanges) /\ Apply) => DecidesAtCursor("Applied")
       /\ (Reviewing /\ currentChange < Len(diffChanges) /\ Skip) => DecidesAtCursor("Skipped")]_vars

C19_Witness ==
    /\ Reviewing
    /\ Len(diffChanges) >= 2
    /\ currentChange = 1
    /\ DecisionOf(diffChanges[1]) = "Skipped"
    /\ DecisionOf(diffChanges[2]) = "Undecided"

\* C20: finalization on exhaustion. Under Apply and Skip the session leaves
\* review exactly at the step that makes the len-th decision, never earlier, and
\* the corrected text it hands back is then the replay of all len decisions.
C20_FinalizesOnExhaustion ==
    [][(Reviewing /\ currentChange < Len(diffChanges) /\ (Apply \/ Skip)) =>
          /\ (mode' # ModeReviewDiff) <=> (currentChange + 1 = Len(diffChanges))
          /\ mode' # ModeReviewDiff =>
                /\ mode' = ModeGlobal
                /\ currentChange' = Len(diffChanges')
                /\ \A i \in 1..Len(diffChanges') : DecisionOf(diffChanges'[i]) # "Undecided"
                /\ correctedText' =
                      buildReviewedTextFromDiffs(originalText, correctedText, diffChanges')
          /\ mode' = ModeReviewDiff => correctedText' = correctedText]_vars

C20_Witness ==
    /\ mode = ModeGlobal
    /\ status = "All changes reviewed (copied)"
    /\ Len(diffChanges) >= 2
    /\ currentChange = Len(diffChanges)
    /\ DecisionOf(diffChanges[1]) = "Applied"
    /\ DecisionOf(diffChanges[2]) = "Skipped"
    /\ correctedText # originalText

\* C21: live preview. After every Apply or Skip that does not complete the
\* session, reviewedText is the replay of original, corrected and the decisions
\* made so far, and every unit at or beyond the new cursor is still Undecided.
C21_LivePreview ==
    [][(Reviewing /\ (Apply \/ Skip) /\ mode' = ModeReviewDiff
            /\ currentChange' # currentChange) =>
          /\ reviewedText' =
                buildReviewedTextFromDiffs(originalText', correctedText', diffChanges')
          /\ \A i \in 1..Len(diffChanges') :
                i > currentChange' => DecisionOf(diffChanges'[i]) = "Undecided"
          /\ \A i \in 1..Len(diffChanges') :
                i <= currentChange' => DecisionOf(diffChanges'[i]) # "Undecided"]_vars

C21_Witness ==
    /\ Reviewing
    /\ Len(diffChanges) >= 2
    /\ currentChange = 1
    /\ DecisionOf(diffChanges[1]) = "Applied"
    /\ reviewedText # originalText
    /\ reviewedText # correctedText

\* the flags of the units against the cursor
C31_Flags ==
    /\ currentChange \in 0..Len(diffChanges)
    /\ \A i \in 1..Len(diffChanges) :
          /\ ~(diffChanges[i].Applied /\ diffChanges[i].Skipped)
          /\ i <= currentChange => DecisionOf(diffChanges[i]) # "Undecided"
          /\ i > currentChange => ~diffChanges[i].Applied /\ ~diffChanges[i].Skipped

\* a step that changes the list either belongs to the session under way and
\* leaves the units below the cursor as they are, or opens a new session
C31_Kept ==
    diffChanges' # diffChanges =>
        \/ /\ Reviewing
           /\ Len(diffChanges') = Len(diffChanges)
           /\ \A i \in 1..currentChange : diffChanges'[i] = diffChanges[i]
        \/ /\ ~Reviewing
           /\ UpdateKey("a")
           /\ currentChange' = 0
           /\ AllMarked(diffChanges', "Undecided")

\* C31: decision flags of a session. In every reachable state no unit has both
\* Applied and Skipped set, every unit below the cursor has exactly one of them
\* set and every unit at or beyond the cursor has neither; and a decision, once
\* recorded, is not changed for the rest of the session.
C31_DecisionFlags == []C31_Flags /\ [][C31_Kept]_vars

\* a session left by Exit after one decision of two: the decision is still there
C31_Witness ==
    /\ mode = ModeGlobal
    /\ status = "Review mode exited (copied)"
    /\ Len(diffChanges) >= 2
    /\ currentChange = 1
    /\ DecisionOf(diffChanges[1]) = "Applied"
    /\ DecisionOf(diffChanges[2]) = "Undecided"

\* while reviewing the cursor stands on a unit
C32_CursorOnUnit ==
    Reviewing => 0 <= currentChange /\ currentChange < Len(diffChanges)

\* the step that enters review finds both texts non-empty and builds at least
\* one unit
C32_Entry ==
    (~Reviewing /\ mode' = ModeReviewDiff) =>
        /\ originalText # <<>>
        /\ correctedText # <<>>
        /\ Len(diffChanges') >= 1
        /\ currentChange' = 0

\* C32: review-mode guard. The Model is in ModeReviewDiff only if originalText
\* and correctedText were non-empty at entry and at least one change unit
\* exists, and in every reachable state mode = ModeReviewDiff implies
\* 0 <= currentChange < len(diffChanges).
C32_ReviewGuard == []C32_CursorOnUnit /\ [][C32_Entry]_vars

\* reviewing the last of several units, the ones before it decided
C32_Witness ==
    /\ Reviewing
    /\ Len(diffChanges) >= 2
    /\ currentChange = Len(diffChanges) - 1
    /\ DecisionOf(diffChanges[currentChange]) # "Undecided"

\* the step makes the last decision of the session
LastDecision == (Apply \/ Skip) /\ currentChange + 1 = Len(diffChanges)

\* C33: frame of the review operations. Apply, Skip and Exit never modify
\* originalText, the number or order of the change units, or a unit's kind and
\* text; an Apply or Skip that does not complete the session leaves
\* correctedText and showDiff unchanged, and only the completing operation (the
\* last decision, or Exit) overwrites correctedText with the final text, sets
\* showDiff to false and returns the mode to ModeGlobal.
C33_ReviewFrame ==
    [][(Reviewing /\ (Apply \/ Skip \/ Exit)) =>
          /\ originalText' = originalText
          /\ Len(diffChanges') = Len(diffChanges)
          /\ \A i \in 1..Len(diffChanges) :
                /\ diffChanges'[i].Type = diffChanges[i].Type
                /\ diffChanges'[i].Text = diffChanges[i].Text
          /\ IF Exit \/ LastDecision
             THEN /\ mode' = ModeGlobal
                  /\ correctedText' =
                        buildReviewedTextFromDiffs(originalText, correctedText, diffChanges')
                  /\ ~showDiff'
             ELSE /\ mode' = ModeReviewDiff
                  /\ correctedText' = correctedText
                  /\ showDiff' = showDiff]_vars

\* a session of two units completed by its last decision: the corrected text is
\* the final text, it was copied, and the diff view is off
C33_Witness ==
    /\ mode = ModeGlobal
    /\ status \in {"All changes reviewed (copied)", "All changes reviewed (copy failed)"}
    /\ Len(diffChanges) >= 2
    /\ DecisionOf(diffChanges[1]) = "Skipped"
    /\ DecisionOf(diffChanges[2]) = "Applied"
    /\ ~showDiff
    /\ correctedText = reviewedText
    /\ sinkCall # <<>>

----------------------------------------------------------------------------
(* internal/ratelimit: the token bucket and the goroutines calling Wait *)

\* how many goroutines call Wait on the limiter, and how often the clock moves
MaxGoroutines == 3
MaxAdvances == 4

Goroutines == 1..MaxGoroutines

\* time.Duration counts nanoseconds
Nanosecond == 1
Millisecond == 1000 * 1000 * Nanosecond
Second == 1000 * Millisecond
Minute == 60 * Second

\* the defaults of New
DefaultMaxRequests == 60
DefaultMinInterval == 100 * Millisecond

\* time.Time{}: the zero time, which no reading of the clock returns
ZeroTime == -1

IsZero(t) == t = ZeroTime

Min(a, b) == IF a < b THEN a ELSE b

\* the guard at the top of the loop of Wait: a refill rate that is not positive
\* becomes a nanosecond
ClampRate(rate) == IF rate <= 0 THEN Nanosecond ELSE rate

\* func New(maxRequests, perDuration, minInterval), called at time now
New(maxRequests, perDuration, minInterval, now) ==
    LET requests == IF maxRequests <= 0 THEN DefaultMaxRequests ELSE maxRequests
        duration == IF perDuration <= 0 THEN Minute ELSE perDuration
        interval == IF minInterval <= 0 THEN DefaultMinInterval ELSE minInterval
        refillRate == duration \div requests
    IN  [mu          |-> 0,
         tokens      |-> requests,
         maxTokens   |-> requests,
         refillRate  |-> IF refillRate <= 0 THEN Nanosecond ELSE refillRate,
         lastRefill  |-> now,
         minInterval |-> interval,
         lastRequest |-> ZeroTime]

\* the limiter TestWaitHandlesMalformedLimiter builds outside New
MalformedLimiter(now) ==
    [mu          |-> 0,
     tokens      |-> 0,
     maxTokens   |-> 0,
     refillRate  |-> 0,
     lastRefill  |-> now,
     minInterval |-> Millisecond,
     lastRequest |-> ZeroTime]

\* the arguments New is called with
LimiterArgs ==
    { [maxRequests |-> 1, perDuration |-> 4, minInterval |-> 2],
      [maxRequests |-> 2, perDuration |-> 6, minInterval |-> 2],
      [maxRequests |-> 2, perDuration |-> 1, minInterval |-> 1],
      [maxRequests |-> 1, perDuration |-> 3, minInterval |-> 0],
      [maxRequests |-> 0, perDuration |-> 4, minInterval |-> 3] }

\* context.Canceled, and the errors Wait builds from it: an error is the chain
\* of errors that errors.Unwrap walks
Canceled == <<"context canceled">>
Wrapf(msg, err) == <<msg>> \o err
ErrorsIs(err, target) == \E i \in 1..Len(err) : SubSeq(err, i, Len(err)) = target
NilError == <<>>

\* ctx.Err() of a goroutine's context
CtxErr(g) == IF rlCtx[g] = "live" THEN NilError ELSE Canceled

InSelect(g) == rlPc[g] \in {"selectInterval", "selectToken"}
Running(g) == rlPc[g] \in {"call", "retry", "selectInterval", "selectToken"}

\* the refill of one pass of the loop of Wait
Refill_Uncapped(l, now) ==
    LET elapsed == now - l.lastRefill
        tokensToAdd == IF elapsed > 0 THEN elapsed \div l.refillRate ELSE 0
    IN  IF tokensToAdd > 0
        THEN [l EXCEPT !.tokens = l.tokens + tokensToAdd, !.lastRefill = now]
        ELSE l
Refill_KeepsLastRefill(l, now) ==
    LET elapsed == now - l.lastRefill
        tokensToAdd == IF elapsed > 0 THEN elapsed \div l.refillRate ELSE 0
    IN  IF tokensToAdd > 0
        THEN [l EXCEPT !.tokens = Min(l.maxTokens, l.tokens + tokensToAdd)]
        ELSE l
Refill(l, now) ==
    LET elapsed == now - l.lastRefill
        tokensToAdd == IF elapsed > 0 THEN elapsed \div l.refillRate ELSE 0
    IN  IF tokensToAdd > 0
        THEN [l EXCEPT !.tokens = Min(l.maxTokens, l.tokens + tokensToAdd), !.lastRefill = now]
        ELSE l

\* whether a pass of the loop must wait out the minimum interval
TooSoon_Never(l, now) == FALSE
TooSoon(l, now) == ~IsZero(l.lastRequest) /\ now - l.lastRequest < l.minInterval

\* the time to wait for the next token
TokenWait(l, now) ==
    LET waitTime == (l.lastRefill + l.refillRate) - now
    IN  IF waitTime > 0 THEN waitTime
        ELSE IF l.refillRate > 0 THEN l.refillRate ELSE Nanosecond

\* where a goroutine stands once the mutex is unlocked, and where it stands
\* before that when Unlock is a step of its own
Unlocked(pc) == pc
Held(pc) ==
    CASE pc = "selectInterval" -> "unlockInterval"
      [] pc = "nil" -> "unlockNil"
      [] pc = "selectToken" -> "unlockToken"
      [] OTHER -> pc

\* what is kept of waitTime, read at `now`: the time the timer of the select
\* fires when the select follows at once, else waitTime itself
FiresAt(now, waitTime) == now + waitTime
WaitTime(now, waitTime) == waitTime

\* the body of the loop of Wait, between Lock and Unlock; held tells whether
\* Unlock is a step of its own that is still to come
Pass(g, held) ==
    LET To(pc) == IF held THEN Held(pc) ELSE Unlocked(pc)
        Timer(t, waitTime) == IF held THEN WaitTime(t, waitTime) ELSE FiresAt(t, waitTime)
        guarded == [rl EXCEPT !.refillRate = ClampRate(rl.refillRate)]
        now == rlNow
    IN  IF guarded.refillRate = 0 /\ now - guarded.lastRefill > 0
        THEN \* integer divide by zero
             /\ rlPc' = [rlPc EXCEPT ![g] = To("panic")]
             /\ UNCHANGED <<rl, rlWake, rlWaited, rlErr, rlAcquired>>
        ELSE LET l == Refill(guarded, now)
             IN  IF TooSoon(l, now)
                 THEN /\ rl' = l
                      /\ rlPc' = [rlPc EXCEPT ![g] = To("selectInterval")]
                      /\ rlWake' = [rlWake EXCEPT ![g] =
                                        Timer(now, l.minInterval - (now - l.lastRequest))]
                      /\ rlWaited' = [rlWaited EXCEPT ![g] = TRUE]
                      /\ UNCHANGED <<rlErr, rlAcquired>>
                 ELSE IF l.tokens > 0
                 THEN /\ rl' = [l EXCEPT !.tokens = l.tokens - 1, !.lastRequest = now]
                      /\ rlPc' = [rlPc EXCEPT ![g] = To("nil")]
                      /\ rlAcquired' = Append(rlAcquired, [by |-> g, at |-> now])
                      /\ UNCHANGED <<rlWake, rlWaited, rlErr>>
                 ELSE /\ rl' = l
                      /\ rlPc' = [rlPc EXCEPT ![g] = To("selectToken")]
                      /\ rlWake' = [rlWake EXCEPT ![g] = Timer(now, TokenWait(l, now))]
                      /\ rlWaited' = [rlWaited EXCEPT ![g] = TRUE]
                      /\ UNCHANGED <<rlErr, rlAcquired>>

\* one pass of the loop of Wait, from Lock to Unlock
RlIterate(g) ==
    /\ rlPc[g] \in {"call", "retry"}
    /\ Pass(g, FALSE)
    /\ UNCHANGED <<rlArgs, rlNow, rlAdvances, rlCtx>>
    /\ UNCHANGED <<modelVars, fnVars, cacheVars>>

\* case <-ctx.Done() of either select
RlDone(g) ==
    /\ InSelect(g)
    /\ rlCtx[g] # "live"
    /\ rlPc' = [rlPc EXCEPT ![g] = "err"]
    /\ rlErr' = [rlErr EXCEPT ![g] =
            IF rlPc[g] = "selectInterval"
            THEN CtxErr(g)
            ELSE Wrapf("rate limit wait cancelled", CtxErr(g))]
    /\ UNCHANGED <<rl, rlArgs, rlNow, rlAdvances, rlWake, rlCtx, rlWaited, rlAcquired>>
    /\ UNCHANGED <<modelVars, fnVars, cacheVars>>

\* case <-time.After(waitTime) of either select; both cases can be ready, and
\* select then takes either
RlTimer(g) ==
    /\ InSelect(g)
    /\ rlNow >= rlWake[g]
    /\ rlPc' = [rlPc EXCEPT ![g] = "retry"]
    /\ UNCHANGED <<rl, rlArgs, rlNow, rlAdvances, rlWake, rlCtx, rlWaited, rlErr, rlAcquired>>
    /\ UNCHANGED <<modelVars, fnVars, cacheVars>>

\* the caller cancels the context of a Wait, before the call or during it
RlCancel(g) ==
    /\ Running(g)
    /\ rlCtx[g] = "live"
    /\ rlCtx' = [rlCtx EXCEPT ![g] = IF rlPc[g] = "call" THEN "cancelledBeforeCall"
                                     ELSE "cancelledInWait"]
    /\ UNCHANGED <<rl, rlArgs, rlNow, rlAdvances, rlPc, rlWake, rlWaited, rlErr, rlAcquired>>
    /\ UNCHANGED <<modelVars, fnVars, cacheVars>>

\* time passes: by a nanosecond, or until the timer of some select fires
RlAdvance ==
    /\ rlAdvances < MaxAdvances
    /\ \E t \in {rlNow + 1} \cup {rlWake[g] : g \in {h \in Goroutines : InSelect(h)}} :
          /\ t > rlNow
          /\ rlNow' = t
    /\ rlAdvances' = rlAdvances + 1
    /\ UNCHANGED <<rl, rlArgs, rlPc, rlWake, rlCtx, rlWaited, rlErr, rlAcquired>>
    /\ UNCHANGED <<modelVars, fnVars, cacheVars>>

InitLimiter ==
    /\ NoSession
    /\ NoReplay
    /\ NoCache
    /\ NoTranslation
    /\ rlNow = 0
    /\ rlAdvances = 0
    /\ \/ \E a \in LimiterArgs :
             /\ rlArgs = <<"New", a>>
             /\ rl = New(a.maxRequests, a.perDuration, a.minInterval, 0)
       \/ /\ rlArgs = <<"literal">>
          /\ rl = MalformedLimiter(0)
    /\ rlPc = [g \in Goroutines |-> "call"]
    /\ rlWake = [g \in Goroutines |-> 0]
    /\ rlCtx = [g \in Goroutines |-> "live"]
    /\ rlWaited = [g \in Goroutines |-> FALSE]
    /\ rlErr = [g \in Goroutines |-> NilError]
    /\ rlAcquired = <<>>

NextLimiter ==
    \/ \E g \in Goroutines : RlIterate(g)
    \/ \E g \in Goroutines : RlDone(g)
    \/ \E g \in Goroutines : RlTimer(g)
    \/ \E g \in Goroutines : RlCancel(g)
    \/ RlAdvance

SpecLimiter == InitLimiter /\ [][NextLimiter]_vars

----------------------------------------------------------------------------
(* Wait under fair scheduling: every goroutine that can run does run, every *)
(* timer that is due fires, and time goes on as long as a timer is pending. *)

\* time passes: by a nanosecond while the clock may still move freely, or until
\* the timer of some select fires. The timers of a limiter that New built are
\* followed for as long as there are any; those of a limiter that never holds
\* a token go on for ever and are followed while the clock may move freely.
RlElapse ==
    /\ LET free == rlAdvances < MaxAdvances
           ticks == IF free THEN {rlNow + 1} ELSE {}
           timers == IF free \/ rl.maxTokens > 0
                     THEN {rlWake[g] : g \in {h \in Goroutines : InSelect(h)}}
                     ELSE {}
       IN  \E t \in ticks \cup timers :
              /\ t > rlNow
              /\ rlNow' = t
    /\ rlAdvances' = rlAdvances + 1
    /\ UNCHANGED <<rl, rlArgs, rlPc, rlWake, rlCtx, rlWaited, rlErr, rlAcquired>>
    /\ UNCHANGED <<modelVars, fnVars, cacheVars>>

NextProgress ==
    \/ \E g \in Goroutines : RlIterate(g)
    \/ \E g \in Goroutines : RlDone(g)
    \/ \E g \in Goroutines : RlTimer(g)
    \/ \E g \in Goroutines : RlCancel(g)
    \/ RlElapse

\* the Go scheduler runs every runnable goroutine and the runtime fires every
\* timer that is due; nothing obliges a caller to cancel its context
Fairness ==
    /\ \A g \in Goroutines : WF_vars(RlIterate(g))
    /\ \A g \in Goroutines : WF_vars(RlTimer(g))
    /\ \A g \in Goroutines : WF_vars(RlDone(g))
    /\ WF_vars(RlElapse)

SpecProgress == InitLimiter /\ [][NextProgress]_vars /\ Fairness

----------------------------------------------------------------------------
(* The same Wait with Lock and Unlock as steps of their own: a goroutine    *)
(* may be suspended anywhere between them, and the clock may move.         *)

\* rl.mu.Unlock()
Unlock_StillHeld(l) == l
Unlock(l) == [l EXCEPT !.mu = 0]

HoldsMutex(g) == rlPc[g] \in {"locked", "unlockInterval", "unlockNil", "unlockToken"}

\* rl.mu.Lock(): blocks while another goroutine holds the mutex
RlLock(g) ==
    /\ rlPc[g] \in {"call", "retry"}
    /\ rl.mu = 0
    /\ rl' = [rl EXCEPT !.mu = g]
    /\ rlPc' = [rlPc EXCEPT ![g] = "locked"]
    /\ UNCHANGED <<rlArgs, rlNow, rlAdvances, rlWake, rlCtx, rlWaited, rlErr, rlAcquired>>
    /\ UNCHANGED <<modelVars, fnVars, cacheVars>>

\* the body of the loop, up to the Unlock of the branch taken
RlLocked(g) ==
    /\ rlPc[g] = "locked"
    /\ Pass(g, TRUE)
    /\ UNCHANGED <<rlArgs, rlNow, rlAdvances, rlCtx>>
    /\ UNCHANGED <<modelVars, fnVars, cacheVars>>

\* rl.mu.Unlock() of the branch taken, followed by its select or its return;
\* the timer of time.After(waitTime) starts now
RlUnlock(g) ==
    /\ rlPc[g] \in {"unlockInterval", "unlockNil", "unlockToken"}
    /\ rl' = Unlock(rl)
    /\ rlPc' = [rlPc EXCEPT ![g] =
            CASE rlPc[g] = "unlockInterval" -> "selectInterval"
              [] rlPc[g] = "unlockNil" -> "nil"
              [] rlPc[g] = "unlockToken" -> "selectToken"]
    /\ rlWake' = [rlWake EXCEPT ![g] =
            IF rlPc[g] = "unlockNil" THEN @ ELSE FiresAt(rlNow, @)]
    /\ UNCHANGED <<rlArgs, rlNow, rlAdvances, rlCtx, rlWaited, rlErr, rlAcquired>>
    /\ UNCHANGED <<modelVars, fnVars, cacheVars>>

NextMutex ==
    \/ \E g \in Goroutines : RlLock(g)
    \/ \E g \in Goroutines : RlLocked(g)
    \/ \E g \in Goroutines : RlUnlock(g)
    \/ \E g \in Goroutines : RlDone(g)
    \/ \E g \in Goroutines : RlTimer(g)
    \/ \E g \in Goroutines : RlCancel(g)
    \/ RlAdvance

SpecMutex == InitLimiter /\ [][NextMutex]_vars

----------------------------------------------------------------------------
(* Claims about the rate limiter *)

BuiltByNew == rlArgs[1] = "New"

\* C22: for any number of goroutines calling Wait on one RateLimiter in any
\* interleaving, the acquisition times of any two Wait calls that return nil
\* differ by at least minInterval.
C22_MinimumSpacing ==
    \A i, j \in 1..Len(rlAcquired) :
        i < j => rlAcquired[j].at - rlAcquired[i].at >= rl.minInterval

\* two goroutines took tokens exactly minInterval apart, the second one after
\* waiting in the select of the interval check while a token was there for it
C22_Witness ==
    /\ Len(rlAcquired) >= 2
    /\ rlAcquired[1].by # rlAcquired[2].by
    /\ rlAcquired[2].at = rlAcquired[1].at + rl.minInterval
    /\ rlWaited[rlAcquired[2].by]
    /\ rl.minInterval < rl.refillRate

\* the arguments of New for which perDuration / maxRequests is a positive rate
PlainArgs ==
    /\ BuiltByNew
    /\ rlArgs[2].maxRequests > 0
    /\ rlArgs[2].perDuration \div rlArgs[2].maxRequests > 0

\* C23: for a limiter built by New(maxRequests, perDuration, minInterval), each
\* Wait that returns nil consumes exactly one token, and the number of Wait
\* calls that have returned nil by time t after construction never exceeds
\* maxRequests + floor(t / refillRate) with refillRate = perDuration / maxRequests;
\* the first Wait on a fresh limiter returns nil without waiting.
C23_TokenBucketBound ==
    /\ PlainArgs =>
          LET refillRate == rlArgs[2].perDuration \div rlArgs[2].maxRequests
          IN  /\ rl.tokens >= 0
              /\ rl.tokens + Len(rlAcquired) <= rlArgs[2].maxRequests + (rlNow \div refillRate)
    /\ (BuiltByNew /\ rlAcquired = <<>>) =>
          \A g \in Goroutines : ~rlWaited[g] /\ rlPc[g] \in {"call", "nil"}

\* the bucket was emptied, a goroutine waited for the refill, and the number of
\* Waits that returned nil stands exactly at the bound
C23_Witness ==
    /\ PlainArgs
    /\ Len(rlAcquired) > rlArgs[2].maxRequests
    /\ Len(rlAcquired) = rlArgs[2].maxRequests
                         + (rlNow \div (rlArgs[2].perDuration \div rlArgs[2].maxRequests))
    /\ rlWaited[rlAcquired[Len(rlAcquired)].by]

\* C24: when Wait cannot acquire a token immediately (no token available or
\* minInterval not yet elapsed) and its context is cancelled, Wait returns a
\* non-nil error that wraps the context's error (errors.Is(err,
\* context.Canceled)), does not panic even when refillRate is 0, and consumes
\* no token.
C24_CancelledWaitFails ==
    \A g \in Goroutines :
        /\ rlPc[g] # "panic"
        /\ rlPc[g] = "err" =>
              /\ rlErr[g] # NilError
              /\ ErrorsIs(rlErr[g], Canceled)
              /\ \A i \in 1..Len(rlAcquired) : rlAcquired[i].by # g
        /\ (rlCtx[g] = "cancelledBeforeCall" /\ rlWaited[g]) => rlPc[g] # "nil"

\* the parts of C24 that hold: no panic, and a Wait that returns an error
\* returns one that wraps context.Canceled and has taken no token
CancelledWaitErrors ==
    \A g \in Goroutines :
        /\ rlPc[g] # "panic"
        /\ rlPc[g] = "err" =>
              /\ rlErr[g] # NilError
              /\ ErrorsIs(rlErr[g], Canceled)
              /\ \A i \in 1..Len(rlAcquired) : rlAcquired[i].by # g

\* a Wait on the limiter with refillRate 0 returned the wrapped error
MalformedWaitErrors ==
    /\ ~BuiltByNew
    /\ \E g \in Goroutines : rlPc[g] = "err" /\ rlErr[g] # Canceled /\ rlNow > 0

----------------------------------------------------------------------------
(* internal/cache: Set, Get and the files of the cache directory *)

\* how often Set and Get are called and how often the clock moves, and how
\* many clock readings make a second
MaxCacheOps == 3
MaxCacheAdvances == 2
TicksPerSecond == 2

\* time.Hour, and the 24 * time.Hour of New, in clock readings
Hour == 3600 * TicksPerSecond
Day == 24 * Hour

\* len(hash) of a SHA-256 in hexadecimal
HashLen == 64

HexDigits == {"0", "1", "2", "3", "4", "5", "6", "7", "8", "9",
              "a", "b", "c", "d", "e", "f", "A", "B", "C", "D", "E", "F"}

\* a Go string is its sequence of characters; a character that UTF-8 encodes
\* in two bytes, a byte that is no valid UTF-8, and U+FFFD
TwoByteChar == "é"
BadByte == "\\xff"
ReplacementChar == "\\ufffd"

\* len(s): the length in bytes
ByteLen(str) ==
    Len(str) + Cardinality({i \in 1..Len(str) : str[i] = TwoByteChar})

\* the 64 characters of a hash made of one digit, and the same with some of
\* its characters replaced
Repeat(c, n) == [i \in 1..n |-> c]
HashOfA == Repeat("a", HashLen)
HashOfB == [i \in 1..HashLen |-> IF i = 1 THEN "F" ELSE "0"]
ValidHashes == {HashOfA, HashOfB}
InvalidHashes ==
    { <<>>,
      <<".", ".", "/", "i", "n", "v", "a", "l", "i", "d">>,
      Repeat("a", HashLen - 1),
      Repeat("a", HashLen + 1),
      [i \in 1..HashLen |-> IF i = HashLen THEN "g" ELSE "a"],
      <<".", ".", "/">> \o Repeat("a", HashLen - 3),
      <<TwoByteChar>> \o Repeat("a", HashLen - 2) }
Hashes == ValidHashes \cup InvalidHashes

\* the texts Set is given
CacheTexts == {<<>>, <<"a">>, <<"a", BadByte>>}

\* func isValidHash(hash string) bool
isValidHash_LengthOnly(hash) == ByteLen(hash) = HashLen
isValidHash(hash) ==
    IF ByteLen(hash) # HashLen
    THEN FALSE
    ELSE \A i \in 1..Len(hash) : hash[i] \in HexDigits

\* the check that the cleaned path of hash + ".json" lies in the cache
\* directory: it does unless it climbs out with ".."
PathInDir(hash) ==
    ~(Len(hash) >= 3 /\ SubSeq(hash, 1, 3) = <<".", ".", "/">>)

\* time.Now().Unix(), and time.Unix(sec, 0) as a clock reading
UnixOf(now) == now \div TicksPerSecond
TimeOfUnix(sec) == sec * TicksPerSecond

\* json.Marshal writes a string coerced to valid UTF-8: every invalid byte
\* becomes U+FFFD
ToValidUTF8(str) == [i \in 1..Len(str) |-> IF str[i] = BadByte THEN ReplacementChar ELSE str[i]]
Marshal(entry) ==
    <<"json", [hash      |-> ToValidUTF8(entry.hash),
               original  |-> ToValidUTF8(entry.original),
               corrected |-> ToValidUTF8(entry.corrected),
               timestamp |-> entry.timestamp]>>

\* json.Unmarshal: the entry of a JSON document, an error for other bytes
UnmarshalOk(data) == Len(data) = 2 /\ data[1] = "json"
Unmarshal(data) == data[2]

\* c.encrypt: AES-GCM under the cache's key with a fresh nonce, in base64
CacheKey == "key of this home directory"
OtherKey == "key of another home directory"
Nonces == {1, 2}
encrypt(plaintext, key, nonce) == <<"base64", key, nonce, plaintext>>

\* c.decrypt: an error for bytes that are no base64 or that the key does not open
DecryptOk(data, key) == Len(data) = 4 /\ data[1] = "base64" /\ data[2] = key
decrypt(data) == data[4]

NoFile == <<>>
InvalidJSON == <<"invalid json">>

\* the expiry test of Get
Expired_AtTTL(timestamp, now, ttl) == now - TimeOfUnix(timestamp) >= ttl
Expired(timestamp, now, ttl) == now - TimeOfUnix(timestamp) > ttl

\* what Get(hash) returns and what it leaves of the directory
GetResult(hash, files, now, ttl) ==
    IF hash = <<>> \/ ~isValidHash(hash) \/ ~PathInDir(hash) \/ files[hash] = NoFile
    THEN [ret |-> <<>>, files |-> files]
    ELSE LET data == files[hash]
             decryptedData == IF DecryptOk(data, CacheKey) THEN decrypt(data) ELSE data
         IN  IF ~UnmarshalOk(decryptedData)
             THEN [ret |-> <<>>, files |-> files]
             ELSE LET entry == Unmarshal(decryptedData)
                  IN  IF Expired(entry.timestamp, now, ttl)
                      THEN [ret |-> <<>>, files |-> [files EXCEPT ![hash] = NoFile]]
                      ELSE [ret |-> entry.corrected, files |-> files]

\* func (c *Cache) Get(hash string) string
CacheGet(hash) ==
    /\ cacheOps < MaxCacheOps
    /\ LET r == GetResult(hash, cacheFiles, cacheNow, cacheTTL)
       IN  /\ cacheFiles' = r.files
           /\ cacheOp' = [op |-> "Get", hash |-> hash, err |-> FALSE, ret |-> r.ret]
    /\ cacheOps' = cacheOps + 1
    /\ UNCHANGED <<cacheTTL, cacheNow, cacheAdvances, cacheStored>>
    /\ UNCHANGED <<modelVars, fnVars, rlVars>>

\* func (c *Cache) Set(hash, original, corrected string) error
CacheSet(hash, original, corrected) ==
    /\ cacheOps < MaxCacheOps
    /\ IF hash = <<>> \/ ~isValidHash(hash) \/ ~PathInDir(hash)
       THEN /\ cacheOp' = [op |-> "Set", hash |-> hash, err |-> TRUE, ret |-> <<>>]
            /\ UNCHANGED <<cacheFiles, cacheStored>>
       ELSE \E nonce \in Nonces :
              LET entry == [hash      |-> hash,
                            original  |-> original,
                            corrected |-> corrected,
                            timestamp |-> UnixOf(cacheNow)]
              IN  /\ cacheFiles' = [cacheFiles EXCEPT
                                       ![hash] = encrypt(Marshal(entry), CacheKey, nonce)]
                  /\ cacheStored' = [cacheStored EXCEPT ![hash] = <<entry>>]
                  /\ cacheOp' = [op |-> "Set", hash |-> hash, err |-> FALSE, ret |-> <<>>]
    /\ cacheOps' = cacheOps + 1
    /\ UNCHANGED <<cacheTTL, cacheNow, cacheAdvances>>
    /\ UNCHANGED <<modelVars, fnVars, rlVars>>

\* time passes: by one clock reading, or by the TTL
CacheAdvance ==
    /\ cacheAdvances < MaxCacheAdvances
    /\ \E d \in {1, cacheTTL} :
          /\ d > 0
          /\ cacheNow' = cacheNow + d
    /\ cacheAdvances' = cacheAdvances + 1
    /\ UNCHANGED <<cacheTTL, cacheFiles, cacheOps, cacheOp, cacheStored>>
    /\ UNCHANGED <<modelVars, fnVars, rlVars>>

\* func New(ttlDays int): the TTL of the cache
CacheNewTTL(ttlDays) == ttlDays * Day

\* the files found in the directory when the cache is opened: none, or one
\* written earlier (by the tests: an entry of some age, plain or encrypted,
\* bytes that are no JSON), or one encrypted under another key
FoundEntry(timestamp) ==
    [hash |-> HashOfA, original |-> <<"a">>, corrected |-> <<"b">>, timestamp |-> timestamp]
FoundFiles ==
    { NoFile,
      InvalidJSON,
      Marshal(FoundEntry(0)),
      encrypt(Marshal(FoundEntry(0)), CacheKey, 1),
      encrypt(Marshal(FoundEntry(0)), OtherKey, 1) }

\* the cache is opened one second after the files found were written
InitCache ==
    /\ NoSession
    /\ NoReplay
    /\ NoLimiter
    /\ NoTranslation
    /\ \E ttlDays \in {0, 1} : cacheTTL = CacheNewTTL(ttlDays)
    /\ \E found \in FoundFiles :
          cacheFiles = [h \in Hashes |-> IF h = HashOfA THEN found ELSE NoFile]
    /\ cacheNow = TicksPerSecond
    /\ cacheAdvances = 0
    /\ cacheOps = 0
    /\ cacheOp = [op |-> "none", hash |-> <<>>, err |-> FALSE, ret |-> <<>>]
    /\ cacheStored = [h \in Hashes |-> <<>>]

NextCache ==
    \/ \E hash \in Hashes : CacheGet(hash)
    \/ \E hash \in Hashes, original \in {<<"a">>}, corrected \in CacheTexts :
          CacheSet(hash, original, corrected)
    \/ CacheAdvance

SpecCache == InitCache /\ [][NextCache]_vars

----------------------------------------------------------------------------
(* Claims about the cache *)

\* the age of an entry: the time since its timestamp
Age(entry) == cacheNow - TimeOfUnix(entry.timestamp)

\* the state a call of Get(hash) has just left
AfterGet(hash) == cacheOp.op = "Get" /\ cacheOp.hash = hash

\* C25: after Set(h, original, corrected) succeeds with h a valid hash, Get(h)
\* returns corrected for as long as the entry's age does not exceed the TTL and
\* no later Set(h, ...) has overwritten it; after a later Set(h, o2, c2), Get(h)
\* returns c2.
C25_RoundTrip ==
    \A h \in ValidHashes :
        (AfterGet(h) /\ cacheStored[h] # <<>> /\ Age(cacheStored[h][1]) <= cacheTTL)
            => cacheOp.ret = cacheStored[h][1].corrected

\* what holds instead: Get returns the text as JSON carries it
RoundTripUpToUTF8 ==
    \A h \in ValidHashes :
        (AfterGet(h) /\ cacheStored[h] # <<>> /\ Age(cacheStored[h][1]) <= cacheTTL)
            => cacheOp.ret = ToValidUTF8(cacheStored[h][1].corrected)

\* a Get returned the text of the second of two Sets for its hash
SecondSetRead ==
    \E h \in ValidHashes :
        /\ AfterGet(h)
        /\ cacheOps = 3
        /\ cacheStored[h] # <<>>
        /\ cacheOp.ret = <<"a">>
        /\ cacheFiles[h][3] = 2

\* the entry Get finds in a file, in a sequence: empty when there is no file or
\* the file holds no entry
EntryIn(data) ==
    IF data = NoFile THEN <<>>
    ELSE IF DecryptOk(data, CacheKey) /\ UnmarshalOk(decrypt(data)) THEN <<Unmarshal(decrypt(data))>>
    ELSE IF ~DecryptOk(data, CacheKey) /\ UnmarshalOk(data) THEN <<Unmarshal(data)>>
    ELSE <<>>

\* a step that is a call of Get, of Set
GetStep(hash) == cacheOps' = cacheOps + 1 /\ cacheOp'.op = "Get" /\ cacheOp'.hash = hash
SetStep(hash) == cacheOps' = cacheOps + 1 /\ cacheOp'.op = "Set" /\ cacheOp'.hash = hash

\* C26: Get on an entry whose age exceeds the TTL returns the empty string and
\* removes the entry, so every later Get for that hash also returns the empty
\* string until a new Set; Get on an entry whose age does not exceed the TTL
\* returns its corrected text and leaves the entry in place.
C26_Expiry ==
    [][\A h \in ValidHashes :
          /\ (GetStep(h) /\ EntryIn(cacheFiles[h]) # <<>>) =>
                IF Age(EntryIn(cacheFiles[h])[1]) > cacheTTL
                THEN /\ cacheOp'.ret = <<>>
                     /\ cacheFiles' = [cacheFiles EXCEPT ![h] = NoFile]
                ELSE /\ cacheOp'.ret = EntryIn(cacheFiles[h])[1].corrected
                     /\ cacheFiles' = cacheFiles
          /\ (GetStep(h) /\ cacheFiles[h] = NoFile) =>
                /\ cacheOp'.ret = <<>>
                /\ cacheFiles' = cacheFiles
          /\ (cacheFiles[h] = NoFile /\ cacheFiles'[h] # NoFile) => SetStep(h)]_vars

\* an entry written by Set has expired and a Get has removed its file
C26_Witness ==
    \E h \in ValidHashes :
        /\ AfterGet(h)
        /\ cacheStored[h] # <<>>
        /\ Age(cacheStored[h][1]) > cacheTTL
        /\ cacheFiles[h] = NoFile
        /\ cacheTTL > 0

\* C27: for a hash that is not exactly 64 hexadecimal characters (including
\* the empty string and path-traversal strings), Set returns an error and
\* writes no entry, and Get returns the empty string and removes nothing.
C27_InvalidHashRejected ==
    [][\A h \in InvalidHashes :
          /\ SetStep(h) => (cacheOp'.err /\ cacheFiles' = cacheFiles)
          /\ GetStep(h) => (cacheOp'.ret = <<>> /\ cacheFiles' = cacheFiles)]_vars

\* Set has refused a hash of 64 bytes that is no hexadecimal, with an entry in
\* the directory
C27_Witness ==
    /\ cacheOp.op = "Set"
    /\ cacheOp.err
    /\ cacheOp.hash \in InvalidHashes
    /\ ByteLen(cacheOp.hash) = HashLen
    /\ \E h \in ValidHashes : cacheFiles[h] # NoFile

----------------------------------------------------------------------------
(* Claims about the messages of a paste and of a correction *)

Handled(type) == lastMsg.msg.type = type
HandledFrom(type, from) == lastMsg.msg.type = type /\ lastMsg.msg.from = from

\* C28: when a paste finds a non-empty cached correction for the pasted
\* (trailing-whitespace-trimmed) text, the model receives a correctionDoneMsg
\* with that cached text and no correction request is issued; only on a miss
\* is textPastedMsg produced and a correction started, whose successful result
\* is then stored under the hash of the same text.
C28_CacheHitBypassesProvider ==
    /\ HandledFrom("correctionDoneMsg", "paste") =>
          /\ uiCache.on
          /\ CacheLookup(Hash(lastMsg.msg.original)) # <<>>
          /\ lastMsg.msg.corrected = CacheLookup(Hash(lastMsg.msg.original))
          /\ correctedText = lastMsg.msg.corrected
          /\ originalText = lastMsg.msg.original
          /\ lastMsg.cmd.kind # "correct"
          /\ ~isLoading
    /\ HandledFrom("textPastedMsg", "paste") =>
          /\ CacheLookup(Hash(lastMsg.msg.text)) = <<>>
          /\ lastMsg.cmd = CorrectCmd(lastMsg.msg.text)
          /\ isLoading
    /\ (HandledFrom("correctionDoneMsg", "correct") /\ lastMsg.set = "nil") =>
          /\ uiCache.on
          /\ CacheLookup(Hash(lastMsg.msg.original)) = lastMsg.msg.corrected

\* a paste has been answered from the cache, with a correction that only the
\* cache holds
C28_Witness ==
    /\ HandledFrom("correctionDoneMsg", "paste")
    /\ originalText = <<"a">>
    /\ correctedText = <<"a", "a">>

\* a correction of a pasted text has been stored under the hash of that text
C28_Stored ==
    /\ HandledFrom("correctionDoneMsg", "correct")
    /\ lastMsg.set = "nil"
    /\ lastMsg.msg.original = <<"a">>
    /\ lastMsg.msg.corrected = <<"b">>

\* C29: on correctionDoneMsg the model sets originalText and correctedText to
\* the message's values with trailing whitespace removed and sets isLoading to
\* false; it starts a translation (isTranslating = true, non-nil command) if
\* and only if a translator is configured and the trimmed corrected text is
\* non-empty; on errMsg it records the error and sets isLoading to false.
C29_CorrectionDoneHandled ==
    /\ Handled("correctionDoneMsg") =>
          /\ originalText = trimTrailingWhitespace(lastMsg.msg.original)
          /\ correctedText = trimTrailingWhitespace(lastMsg.msg.corrected)
          /\ ~isLoading
          /\ (isTranslating /\ lastMsg.cmd # NoCmd)
                <=> (translator /\ trimTrailingWhitespace(lastMsg.msg.corrected) # <<>>)
          /\ lastMsg.cmd # NoCmd =>
                /\ lastMsg.cmd = TranslateCmd(trimTrailingWhitespace(lastMsg.msg.corrected))
                /\ inFlight[Len(inFlight)] = lastMsg.cmd
    /\ Handled("errMsg") =>
          /\ error = lastMsg.msg.err
          /\ ~isLoading

\* a correctionDoneMsg whose texts end in whitespace has started a translation
C29_Witness ==
    /\ Handled("correctionDoneMsg")
    /\ lastMsg.msg.original = <<"a", " ">>
    /\ lastMsg.msg.corrected = <<"a", " ">>
    /\ isTranslating
    /\ inFlight = <<TranslateCmd(<<"a">>)>>

\* C30: on textPastedMsg the model sets originalText to the pasted text with
\* trailing whitespace removed, clears correctedText and translatedText, sets
\* isLoading to true and isTranslating to false, and returns a non-nil
\* correction command for exactly that trimmed text.
C30_TextPastedHandled ==
    Handled("textPastedMsg") =>
        /\ originalText = trimTrailingWhitespace(lastMsg.msg.text)
        /\ correctedText = <<>>
        /\ translatedText = <<>>
        /\ isLoading
        /\ ~isTranslating
        /\ lastMsg.cmd # NoCmd
        /\ lastMsg.cmd = CorrectCmd(trimTrailingWhitespace(lastMsg.msg.text))
        /\ inFlight[Len(inFlight)] = lastMsg.cmd

\* a textPastedMsg whose text ends in whitespace has been handled after an
\* earlier text was brought in
C30_Witness ==
    /\ Handled("textPastedMsg")
    /\ lastMsg.msg.text = <<"a", " ">>
    /\ inputs = 2
    /\ translator

----------------------------------------------------------------------------
(* Claims about requests in flight *)

\* the correction requests that have not returned
Pending == {j \in 1..Len(inFlight) : inFlight[j].kind = "correct"}

\* the command of a correction request returns, its provider call a success
CorrectionReturns ==
    \E j \in 1..MaxInFlight, output \in MsgTexts : UpdateCorrectionDone(j, output)

\* C34: pair consistency under out-of-order completion. With several
\* correction requests in flight, whichever returns, the correctionDoneMsg it
\* sends carries its own input, and once Update has handled the message the
\* original and corrected text are the trimmed input and output of that one
\* request: the request that has left the requests in flight, and whose pair
\* its command has stored in the cache.
C34_PairOfOneRequest ==
    [][CorrectionReturns =>
          \E j \in Pending :
              /\ lastMsg'.msg.type = "correctionDoneMsg"
              /\ lastMsg'.msg.original = inFlight[j].text
              /\ originalText' = trimTrailingWhitespace(inFlight[j].text)
              /\ correctedText' = trimTrailingWhitespace(lastMsg'.msg.corrected)
              /\ SubSeq(inFlight', 1, Len(inFlight) - 1) = Remove(inFlight, j)
              /\ lastMsg'.set = "nil" =>
                    [hash |-> Hash(originalText'), corrected |-> correctedText']
                        \in uiCache'.entries]_vars

\* the request for "b" has returned while a request for "a" is in flight, and
\* the pair shown is that of "b"
C34_Witness ==
    /\ HandledFrom("correctionDoneMsg", "correct")
    /\ lastMsg.msg.original = <<"b">>
    /\ originalText = <<"b">>
    /\ correctedText = <<"a">>
    /\ \E j \in Pending : inFlight[j].text = <<"a">>

\* C35: the loading flag tracks the work in flight. Every started correction
\* command produces exactly one of correctionDoneMsg and errMsg, and in every
\* reachable state isLoading is true if and only if at least one correction
\* request is still in flight.
C35_LoadingIffPending == isLoading <=> Pending # {}

\* what holds instead: the flag is never set without a request in flight
LoadingOnlyWhilePending == isLoading => Pending # {}

\* a request is in flight and the flag is off
PendingNotLoading ==
    /\ ~isLoading
    /\ Pending # {}
    /\ status = "Done"

----------------------------------------------------------------------------
(* Claims about the mutex of the rate limiter *)

\* the token count stays within the bucket, the mutex is held by the one
\* goroutine between its Lock and its Unlock and by no goroutine that sleeps
\* in a select, has returned or has yet to lock
C36_Bucket ==
    BuiltByNew =>
        /\ 0 <= rl.tokens /\ rl.tokens <= rl.maxTokens
        /\ \A g \in Goroutines : HoldsMutex(g) <=> rl.mu = g
        /\ \A g \in Goroutines :
              (InSelect(g) \/ rlPc[g] \in {"nil", "err"}) => rl.mu # g

\* a step that writes a field of the limiter is a step of the goroutine that
\* holds the mutex
C36_WritesUnderMutex ==
    (BuiltByNew /\ \E f \in {"tokens", "lastRefill", "lastRequest", "refillRate"} :
                        rl'[f] # rl[f]) =>
        /\ rl.mu \in Goroutines
        /\ rl'.mu = rl.mu
        /\ rlPc[rl.mu] = "locked"
        /\ rlPc'[rl.mu] # "locked"
        /\ \A g \in Goroutines : g # rl.mu => rlPc'[g] = rlPc[g]

\* C36: token count of the rate limiter. For a limiter built by New and any
\* interleaving of concurrent Wait calls, 0 <= tokens <= maxTokens holds in
\* every state, tokens is written only while the mutex is held, and the mutex
\* is released on every path before Wait sleeps or returns.
C36_TokensUnderMutex == []C36_Bucket /\ [][C36_WritesUnderMutex]_vars

\* one goroutine holds the mutex with the bucket empty, a second sleeps in a
\* select and a third has returned with a token
C36_Witness ==
    /\ BuiltByNew
    /\ rl.mu \in Goroutines
    /\ rl.tokens = 0
    /\ rlPc[rl.mu] = "unlockToken"
    /\ \E g \in Goroutines : InSelect(g)
    /\ \E g \in Goroutines : rlPc[g] = "nil"

----------------------------------------------------------------------------
(* Claims about the progress of the rate limiter *)

AllReturnedNil == \A g \in Goroutines : rlPc[g] = "nil"
SomeCancelled == \E g \in Goroutines : rlCtx[g] # "live"

\* a limiter with maxTokens = 0 hands out no token, and a Wait on it returns
\* only with the error of its cancelled context
C37_NoTokenNoReturn ==
    rl.maxTokens = 0 =>
        \A g \in Goroutines :
            /\ rlPc[g] # "nil"
            /\ ~Running(g) => (rlPc[g] = "err" /\ rlCtx[g] # "live")

\* C37: progress of the rate limiter. For a limiter built by New (maxTokens >=
\* 1) whose callers' contexts are never cancelled, every Wait call eventually
\* returns nil under fair scheduling and advancing time, for any number of
\* concurrent callers; a limiter with maxTokens = 0 never returns nil and
\* returns only when the context is cancelled.
C37_Progress ==
    /\ (BuiltByNew /\ rl.maxTokens >= 1) ~> (SomeCancelled \/ AllReturnedNil)
    /\ []C37_NoTokenNoReturn

\* every goroutine has its token, the last two after waiting, none cancelled
C37_Witness ==
    /\ BuiltByNew
    /\ AllReturnedNil
    /\ ~SomeCancelled
    /\ Len(rlAcquired) = MaxGoroutines
    /\ rlAcquired[Len(rlAcquired)].at > rlAcquired[1].at
    /\ \E g, h \in Goroutines : g # h /\ rlWaited[g] /\ rlWaited[h]

\* a Wait on the limiter with maxTokens = 0 has returned, its context cancelled
C37_CancelledReturn ==
    /\ rl.maxTokens = 0
    /\ \E g \in Goroutines : rlPc[g] = "err" /\ rlWaited[g]

----------------------------------------------------------------------------
(* Claims about a cache that cannot be written *)

\* C38: a cache write failure never fails a correction. When the provider call
\* succeeds and saving the result to the cache returns an error, the command
\* still delivers correctionDoneMsg with the corrected text, and no errMsg is
\* produced: Update shows the pair and records no error.
C38_SaveFailureIsSilent ==
    [][(CorrectionReturns /\ lastMsg'.set = "error") =>
          /\ lastMsg'.msg.type = "correctionDoneMsg"
          /\ \E j \in Pending, output \in MsgTexts :
                /\ lastMsg'.msg.original = inFlight[j].text
                /\ lastMsg'.msg.corrected = trimTrailingWhitespace(output)
                /\ correctedText' = trimTrailingWhitespace(output)
          /\ ~isLoading'
          /\ error' = error
          /\ status' # "Error"]_vars

\* the correction of "a" was delivered although the cache could not store it
C38_Witness ==
    /\ HandledFrom("correctionDoneMsg", "correct")
    /\ lastMsg.set = "error"
    /\ uiCache.on
    /\ originalText = <<"a">>
    /\ correctedText = <<"b">>
    /\ CacheLookup(Hash(<<"a">>)) # <<"b">>
    /\ error = <<>>

====
